---- MODULE Spec2Model ----
(***************************************************************************)
(* Model of create_data.py: the benchmark-processing orchestration         *)
(* (process_benchmark and the __main__ driver).  Text is modelled as       *)
(* sequences of one-character strings (file extensions are one token), a   *)
(* command line as a sequence of tokens.                                   *)
(***************************************************************************)
EXTENDS Integers, Sequences, FiniteSets, TLC

\* ------------------------------------------------------------------ bounds
MaxAttempts == 3    \* base-size attempts explored per invocation
MaxFaults == 1      \* environment faults explored per invocation

\* --------------------------------------------------------- program constants
DATA_TASK_PREFIX == <<"D">>
MGPUSIM_COMMIT_SHA == "8ef2478f927933de2711ddea400927453079955c"
PadWidth == 4
MiB == 1048576

\* ------------------------------------------------------------- text helpers
Digit(d) ==
    CASE d = 0 -> "0" [] d = 1 -> "1" [] d = 2 -> "2" [] d = 3 -> "3"
      [] d = 4 -> "4" [] d = 5 -> "5" [] d = 6 -> "6" [] d = 7 -> "7"
      [] d = 8 -> "8" [] d = 9 -> "9"

DigitVal(c) ==
    CASE c = "0" -> 0 [] c = "1" -> 1 [] c = "2" -> 2 [] c = "3" -> 3
      [] c = "4" -> 4 [] c = "5" -> 5 [] c = "6" -> 6 [] c = "7" -> 7
      [] c = "8" -> 8 [] c = "9" -> 9

RECURSIVE Str(_)
\* str(n) of a non-negative int
Str(n) == IF n < 10 THEN <<Digit(n)>> ELSE Str(n \div 10) \o <<Digit(n % 10)>>

RECURSIVE Zeros(_)
Zeros(k) == IF k <= 0 THEN <<>> ELSE <<"0">> \o Zeros(k - 1)

\* f"{index:04d}": at least PadWidth digits, zero filled on the left
ZeroPad(index) == Zeros(PadWidth - Len(Str(index))) \o Str(index)

RECURSIVE ParseInt(_)
\* int(s) of a digit string
ParseInt(s) == IF Len(s) = 0 THEN 0
          ELSE 10 * ParseInt(SubSeq(s, 1, Len(s) - 1)) + DigitVal(s[Len(s)])

\* s.replace(".sqlite3", "")
RemoveExt(s) == SelectSeq(s, LAMBDA c : c # ".sqlite3")

\* faulty variants: the type of the run is left out of the name
format_data_filename_NoType(bench_id, type_id, index) ==
    DATA_TASK_PREFIX \o bench_id \o ZeroPad(index) \o <<".sqlite3">>

RecordId_NoType(bench_id, type_id, index) ==
    DATA_TASK_PREFIX \o bench_id \o ZeroPad(index)

\* ------------------------------------------------------------ file naming
format_data_filename(bench_id, type_id, index) ==
    DATA_TASK_PREFIX \o bench_id \o type_id \o ZeroPad(index) \o <<".sqlite3">>

\* record["id"] as built in process_benchmark
RecordId(bench_id, type_id, index) ==
    RemoveExt(format_data_filename(bench_id, type_id, index))

\* the file name write_data_record writes to
RecordFileName(record) == record.id \o <<".json">>

\* ------------------------------------------------------------ size measure
\* round(size_bytes / (1024 * 1024), 2), in hundredths of a MB.  The quotient
\* is exact in binary floating point, so the rounding is half-to-even.
SizeMB(size_bytes) ==
    LET q == (size_bytes * 100) \div MiB
        r == (size_bytes * 100) % MiB
    IN  IF 2 * r > MiB THEN q + 1
        ELSE IF 2 * r < MiB THEN q
        ELSE IF q % 2 = 0 THEN q ELSE q + 1

\* repr of the float c/100
FloatStr(c) ==
    Str(c \div 100) \o <<".">> \o
    (IF c % 10 = 0 THEN <<Digit((c % 100) \div 10)>>
     ELSE <<Digit((c % 100) \div 10), Digit(c % 10)>>)

\* A measured size is [float |-> TRUE, c |-> hundredths] for a file that was
\* found, and the int 0, [float |-> FALSE, c |-> 0], otherwise.
IntZero == [float |-> FALSE, c |-> 0]
Measured(size_bytes) == [float |-> TRUE, c |-> SizeMB(size_bytes)]

\* faulty variant: the float notation also for the int 0
SizeField_AlwaysFloat(size_mb) == FloatStr(size_mb.c) \o <<" ", "M", "B">>

\* f"{size_mb} MB" if size_mb is not None else "0 MB"
SizeField(size_mb) ==
    (IF size_mb.float THEN FloatStr(size_mb.c) ELSE <<"0">>) \o <<" ", "M", "B">>

\* faulty variant: the comparison the wrong way round
BelowMin_Flipped(size_mb, min_size_MB) == size_mb.c > min_size_MB * 100

\* size_mb < benchmark_trace_min_size_MB
BelowMin(size_mb, min_size_MB) == size_mb.c < min_size_MB * 100

\* " ".join(parts)
RECURSIVE Join(_)
Join(parts) ==
    IF Len(parts) = 0 THEN <<>>
    ELSE IF Len(parts) = 1 THEN parts[1]
    ELSE parts[1] \o <<" ">> \o Join(Tail(parts))

\* shlex.split(s) of a string without quotes: the blank-separated words
RECURSIVE Split(_)
Split(s) ==
    IF Len(s) = 0 THEN <<>>
    ELSE IF s[1] = " " THEN Split(Tail(s))
    ELSE LET rest == Split(Tail(s))
         IN  IF Len(s) > 1 /\ s[2] # " "
             THEN <<(<<s[1]>> \o rest[1])>> \o Tail(rest)
             ELSE <<(<<s[1]>>)>> \o rest

\* arg.lstrip("-")
RECURSIVE LStripDash(_)
LStripDash(s) == IF Len(s) > 0 /\ s[1] = "-" THEN LStripDash(Tail(s)) ELSE s

\* faulty variant: the first list varies fastest
RECURSIVE product_FirstFastest(_)
product_FirstFastest(lists) ==
    IF Len(lists) = 0 THEN << <<>> >>
    ELSE LET rest == product_FirstFastest(Tail(lists))
             RECURSIVE Col(_)
             Col(j) == IF j > Len(rest) THEN <<>>
                       ELSE [i \in 1..Len(lists[1]) |-> <<lists[1][i]>> \o rest[j]]
                            \o Col(j + 1)
         IN  Col(1)

\* itertools.product(*lists): the last list varies fastest
RECURSIVE product(_)
product(lists) ==
    IF Len(lists) = 0 THEN << <<>> >>
    ELSE LET rest == product(Tail(lists))
             RECURSIVE Row(_)
             Row(i) == IF i > Len(lists[1]) THEN <<>>
                       ELSE [j \in 1..Len(rest) |-> <<lists[1][i]>> \o rest[j]]
                            \o Row(i + 1)
         IN  Row(1)

\* list(zip(a, b)) for Len(a) >= Len(b) or the reverse
Zip(a, b) ==
    [i \in 1..(IF Len(a) < Len(b) THEN Len(a) ELSE Len(b)) |-> <<a[i], b[i]>>]

\* a | b on non-negative ints
RECURSIVE BitOr(_, _)
BitOr(a, b) ==
    IF a = 0 THEN b
    ELSE IF b = 0 THEN a
    ELSE 2 * BitOr(a \div 2, b \div 2) + (IF a % 2 = 1 \/ b % 2 = 1 THEN 1 ELSE 0)

\* ----------------------------------------------------------- configuration
\* data_config.json as load_profile returns it: profile["benchmark_config"],
\* profile["benchmark_base_arg"]; the minimum trace size varies.
benchmark_config ==
        [ fir |->
            [ id |-> <<"0", "1">>, base_script |-> <<"fir">>,
              size_arg |-> <<"-length">>, size_arg_start |-> 1,
              normal_arg_list |-> << <<"-", "a">>, <<"-", "b">> >>,
              normal_arg_values |-> [k \in {<<"a">>, <<"b">>} |->
                                        IF k = <<"a">> THEN <<1, 2>> ELSE <<10, 20>>],
              special_arg_list |-> << <<"-magic-memory-copy">> >> ],
          kmeans |->
            [ id |-> <<"0", "3">>, base_script |-> <<"kmeans">>,
              size_arg |-> <<"-points">>, size_arg_start |-> 2,
              normal_arg_list |-> << <<"-", "clusters">> >>,
              normal_arg_values |-> [k \in {<<"clusters">>} |-> <<3, 5>>],
              special_arg_list |-> << <<"-unified-gpus", " ", "1,2">>,
                                      <<"-use-unified-memory">> >> ],
          bfs |->
            [ id |-> <<"1", "2">>, base_script |-> <<"bfs">>,
              size_arg |-> <<"-node">>, size_arg_start |-> 0,
              normal_arg_list |-> << <<"-", "depth">> >>,
              normal_arg_values |-> [k \in {<<"degree">>} |-> <<4>>],
              special_arg_list |-> << <<"-magic-memory-copy">> >> ],
          nw |->
            [ id |-> <<"1", "5">>, base_script |-> <<"nw">>,
              size_arg |-> <<"-length">>,
              normal_arg_list |-> <<>>,
              normal_arg_values |-> <<>>,
              special_arg_list |-> <<>> ],
          atax |->
            [ id |-> <<"0", "7">>, base_script |-> <<"atax">>,
              size_arg |-> <<"-x">>, size_arg_start |-> 1,
              normal_arg_list |-> << <<"-", "y">>, <<"-", "iter">> >>,
              normal_arg_values |-> [k \in {<<"y">>, <<"iter">>} |->
                                        IF k = <<"y">> THEN <<1, 2>> ELSE <<>>],
              special_arg_list |-> << <<"-magic-memory-copy">> >> ],
          bicg |->
            [ id |-> <<"0", "9">>, base_script |-> <<"bicg">>,
              size_arg |-> <<"-x">>, size_arg_start |-> 1,
              normal_arg_list |-> <<>>,
              normal_arg_values |-> <<>>,
              special_arg_list |-> << <<"-use-unified-memory">> >> ] ]

\* int(bconf.get("size_arg_start", 0))
size_arg_start(conf) ==
    IF "size_arg_start" \in DOMAIN conf THEN conf.size_arg_start ELSE 0

benchmark_base_arg == <<"-timing", " ", "-trace-vis">>

\* What is asked for: process_benchmark called directly with one name, or the
\* __main__ block run with a list of names.  "ghost" is in no configuration.
Requests ==
    {[entry |-> "call", names |-> <<n>>] : n \in {"fir", "kmeans", "bfs", "nw", "ghost"}}
    \cup {[entry |-> "main", names |-> l] :
            l \in {<<>>, <<"bfs">>, <<"bfs", "nw">>, <<"bfs", "bfs">>,
                   <<"ghost", "bfs">>, <<"bfs", "ghost">>}}
MinSizes == {0, 5}

\* sizes in bytes of the trace file a run may leave: 2.0 MB, and 4.995.. MB
\* (which rounds to 5.0); a sweep run at the base size leaves the larger
TraceBytes(phase) == IF phase = "base" THEN {2097152, 5237638} ELSE {5237638}

\* a leftover akita_sim file of an earlier, interrupted invocation
Leftover == [id |-> 1, mtime |-> 1, size |-> 2097152]

NoSize == -1
NoFile == [id |-> 0, mtime |-> 0, size |-> 0]

\* ------------------------------------------------------------------- state
VARIABLES
    entry,            \* "main": the __main__ block runs; "call": process_benchmark is called directly
    benchmarks,       \* the requested benchmark names, in order
    min_size_MB,      \* benchmark_trace_min_size_MB of the loaded profile
    naming,           \* file names formatted on their own: see SpecNaming
    drive,            \* the items of the remote drive: see SpecDrive, SpecUpload
    job,              \* the drive call in progress: see SpecDrive
    inst,             \* two instances in one working directory: see SpecTwo
    mainpc,           \* "validate", "loop", "exited"
    bi,               \* position in benchmarks of the current / next call
    rc,               \* __main__'s rc
    exitCode,         \* argument of sys.exit, -1 while running
    pc,               \* position inside process_benchmark, "idle" outside
    cur_size, idx_counter, base_size,
    produced_traces, produced_records,
    combos,           \* the normal combinations not yet run
    specials,         \* the special entries not yet run
    attempt,          \* base-size attempts made so far
    cwdFiles,         \* akita_sim_* files in the working directory
    dataDir,          \* files of data_save_path: name -> content
    recordDir,        \* files of data_record_save_path: name -> document
    clock,            \* files created so far (their id and modification time)
    faults,           \* environment faults so far
    log               \* what happened, in order

vars == <<entry, benchmarks, min_size_MB, naming, drive, job, inst, mainpc, bi, rc, exitCode, pc, cur_size,
          idx_counter, base_size, produced_traces, produced_records, combos,
          specials, attempt, cwdFiles, dataDir, recordDir, clock, faults, log>>

\* what an orchestration invocation never changes
mainVars == <<entry, benchmarks, min_size_MB, naming, drive, job, inst>>
localVars == <<cur_size, idx_counter, base_size, produced_traces,
               produced_records, combos, specials, attempt>>
fsVars == <<cwdFiles, dataDir, recordDir, clock>>

Init ==
    /\ \E req \in Requests : entry = req.entry /\ benchmarks = req.names
    /\ min_size_MB \in MinSizes
    /\ naming = <<>>
    /\ drive = {}
    /\ job = <<>>
    /\ inst = <<>>
    /\ mainpc = IF entry = "main" THEN "validate" ELSE "loop"
    /\ bi = 1
    /\ rc = 0
    /\ exitCode = -1
    /\ pc = "idle"
    /\ cur_size = 0 /\ idx_counter = 0 /\ base_size = NoSize
    /\ produced_traces = <<>> /\ produced_records = <<>>
    /\ combos = <<>> /\ specials = <<>> /\ attempt = 0
    /\ cwdFiles \in {{}, {Leftover}}
    /\ clock = 1
    /\ dataDir = <<>>
    /\ recordDir = <<>>
    /\ faults = 0
    /\ log = <<>>

\* ------------------------------------------------------------- file system
\* a directory is a function from file name to content
Put(dir, name, content) ==
    [n \in (DOMAIN dir) \cup {name} |-> IF n = name THEN content ELSE dir[n]]

AkitaName(f) == <<"akita_sim_">> \o Str(f.id) \o <<".sqlite3">>

\* what one execution of the benchmark does: its exit code and the size of
\* the akita_sim_*.sqlite3 file it leaves (NoSize: none)
Outcomes(phase) == [rc : {0, 1}, bytes : TraceBytes(phase) \cup {NoSize}]

\* environment faults of an outcome: a nonzero exit, or no trace file from a
\* sweep run (a base-size attempt at a small size may well leave none)
Cost(out, phase) ==
    IF out.rc # 0 \/ (out.bytes = NoSize /\ phase # "base") THEN 1 ELSE 0

\* the working directory after the child process ended
AfterRun(files, out, t) ==
    IF out.bytes = NoSize THEN files
    ELSE files \cup {[id |-> t + 1, mtime |-> t + 1, size |-> out.bytes]}

ClockAfter(out, t) == IF out.bytes = NoSize THEN t ELSE t + 1

\* faulty variant: the file modified longest ago
Newest_Oldest(matches) == CHOOSE f \in matches : \A g \in matches : f.mtime <= g.mtime

\* matches.sort(key=mtime, reverse=True); matches[0]
Newest(matches) == CHOOSE f \in matches : \A g \in matches : g.mtime <= f.mtime

\* faulty variant: the return code of the child process is not looked at
run_benchmark_and_get_size_IgnoringRc(out, files) ==
    IF files = {}
    THEN [succeeded |-> TRUE, size_mb |-> IntZero, produced_path |-> NoFile]
    ELSE [succeeded |-> TRUE, size_mb |-> Measured(Newest(files).size),
          produced_path |-> Newest(files)]

\* faulty variant: the working directory is scanned before the return code is
\* looked at
run_benchmark_and_get_size_ScanFirst(out, files) ==
    IF files = {}
    THEN [succeeded |-> TRUE, size_mb |-> IntZero, produced_path |-> NoFile]
    ELSE IF out.rc # 0
    THEN [succeeded |-> FALSE, size_mb |-> Measured(Newest(files).size),
          produced_path |-> Newest(files)]
    ELSE [succeeded |-> TRUE, size_mb |-> Measured(Newest(files).size),
          produced_path |-> Newest(files)]

\* (succeeded, size_mb, produced path) of run_benchmark_and_get_size, given the
\* working directory as the child process left it
run_benchmark_and_get_size(out, files) ==
    IF out.rc # 0
    THEN [succeeded |-> FALSE, size_mb |-> IntZero, produced_path |-> NoFile]
    ELSE IF files = {}
    THEN [succeeded |-> TRUE, size_mb |-> IntZero, produced_path |-> NoFile]
    ELSE [succeeded |-> TRUE, size_mb |-> Measured(Newest(files).size),
          produced_path |-> Newest(files)]

\* os.path.abspath(os.path.join(benchmark_path, bench_name, base_script))
ExePath(bench_name, base_script) == <<"/", bench_name, "/">> \o base_script

RECURSIVE Basename(_)
Basename(path) ==
    IF \E i \in 1..Len(path) : path[i] = "/"
    THEN Basename(Tail(path))
    ELSE path

build_base_benchmark_cmd(exe_path, base_args, size_arg_name, size_value) ==
    <<exe_path>> \o (IF base_args # <<>> THEN Split(base_args) ELSE <<>>)
                 \o <<size_arg_name, Str(size_value)>>

\* write_data_record: the record directory afterwards
write_data_record(dir, record) == Put(dir, RecordFileName(record), record)

\* ------------------------------------------------- process_benchmark: locals
bench_name == benchmarks[bi]
bconf == benchmark_config[bench_name]
bench_id == bconf.id
exe_path == ExePath(bench_name, bconf.base_script)

\* faulty variant: the product is taken also when there is no flag
NormalCombinations_Unguarded(conf) ==
    LET lists == [i \in 1..Len(conf.normal_arg_list) |->
                    LET key == LStripDash(conf.normal_arg_list[i])
                    IN  IF key \in DOMAIN conf.normal_arg_values
                        THEN conf.normal_arg_values[key] ELSE <<>>]
    IN  product(lists)

\* normal_values_lists, then list(product(...)) if normal_values_lists else []
NormalCombinations(conf) ==
    LET lists == [i \in 1..Len(conf.normal_arg_list) |->
                    LET key == LStripDash(conf.normal_arg_list[i])
                    IN  IF key \in DOMAIN conf.normal_arg_values
                        THEN conf.normal_arg_values[key] ELSE <<>>]
    IN  IF Len(lists) > 0 THEN product(lists) ELSE <<>>

\* faulty variant: a size of 0 advances
Double_Advancing(size) == size * 2 + 1

\* faulty variant: the size grows by a fixed step
Double_Stepping(size) == size + 2

\* cur_size = cur_size * 2
Double(size) == size * 2

\* faulty variant: the index is not advanced
Advance_Stuck(index) == index

\* idx_counter += 1
Advance(index) == index + 1

\* faulty variant: rc = status
Accumulate_Overwrite(r, status) == status

\* rc |= status
Accumulate(r, status) == BitOr(r, status)

\* leaving process_benchmark with a status
Return(status, events) ==
    /\ pc' = "idle"
    /\ bi' = bi + 1
    /\ rc' = IF entry = "main" THEN Accumulate(rc, status) ELSE rc
    /\ log' = log \o events \o <<[ev |-> "return", call |-> bi, status |-> status]>>

CallEvent == [ev |-> "call", call |-> bi, name |-> bench_name]

Calling == mainpc = "loop" /\ pc = "idle" /\ bi <= Len(benchmarks)

\* lines 103-105: the name is not configured
ProcessUnknown ==
    /\ Calling
    /\ bench_name \notin DOMAIN benchmark_config
    /\ Return(1, <<CallEvent>>)
    /\ UNCHANGED <<mainVars, mainpc, exitCode, localVars, fsVars, faults>>

\* lines 107-144: read the configuration, make the directories, purge akita_sim*
ProcessStart ==
    /\ Calling
    /\ bench_name \in DOMAIN benchmark_config
    /\ \E kept \in SUBSET cwdFiles :      \* the files whose unlink raised
         /\ faults + Cardinality(kept) <= MaxFaults
         /\ faults' = faults + Cardinality(kept)
         /\ cwdFiles' = kept
         /\ log' = Append(log, CallEvent)
    /\ produced_traces' = <<>>
    /\ produced_records' = <<>>
    /\ pc' = "build"
    /\ UNCHANGED <<mainVars, mainpc, bi, rc, exitCode, cur_size, idx_counter,
                   base_size, combos, specials, attempt, dataDir, recordDir, clock>>

\* lines 148-150: the benchmark directory does not exist
BuildNoDir ==
    /\ pc = "build"
    /\ faults < MaxFaults
    /\ faults' = faults + 1
    /\ Return(1, <<[ev |-> "nodir", call |-> bi]>>)
    /\ UNCHANGED <<mainVars, mainpc, exitCode, localVars, fsVars>>

\* faulty variant: the build failure is swallowed and the search starts
BuildFail_Swallowed ==
    /\ pc = "build"
    /\ faults < MaxFaults
    /\ faults' = faults + 1
    /\ pc' = "search"
    /\ cur_size' = size_arg_start(bconf)
    /\ idx_counter' = 0
    /\ base_size' = NoSize
    /\ log' = Append(log, [ev |-> "build", call |-> bi, ok |-> FALSE])
    /\ UNCHANGED <<mainVars, mainpc, bi, rc, exitCode, produced_traces,
                   produced_records, combos, specials, attempt, fsVars>>

\* lines 151-156: go build fails
BuildFail ==
    /\ pc = "build"
    /\ faults < MaxFaults
    /\ faults' = faults + 1
    /\ Return(1, <<[ev |-> "build", call |-> bi, ok |-> FALSE]>>)
    /\ UNCHANGED <<mainVars, mainpc, exitCode, localVars, fsVars>>

\* lines 151-178: go build succeeds; the search starts at size_arg_start
BuildOk ==
    /\ pc = "build"
    /\ pc' = "search"
    /\ cur_size' = size_arg_start(bconf)
    /\ idx_counter' = 0
    /\ base_size' = NoSize
    /\ log' = Append(log, [ev |-> "build", call |-> bi, ok |-> TRUE])
    /\ UNCHANGED <<mainVars, mainpc, bi, rc, exitCode, produced_traces,
                   produced_records, combos, specials, attempt, fsVars, faults>>

\* ------------------------------------------- process_benchmark: running
base_args == benchmark_base_arg

RunEvent(phase, size, cmd, out, r) ==
    [ev |-> "run", call |-> bi, phase |-> phase, index |-> idx_counter,
     size |-> size, cmd |-> cmd, rc |-> out.rc,
     made |-> IF out.bytes = NoSize THEN 0 ELSE clock + 1,
     found |-> r.produced_path.id, size_mb |-> r.size_mb]

RecordEvent(record) ==
    [ev |-> "record", call |-> bi, file |-> RecordFileName(record), doc |-> record]

MoveEvent(src, name, ok) ==
    [ev |-> "move", call |-> bi, src |-> src.id, dst |-> name, ok |-> ok]

\* the environment's part of one run: the child's outcome, and whether the
\* file operation that follows it (unlink or move) works
Env(phase, out, fs_ok) ==
    /\ out \in Outcomes(phase)
    /\ fs_ok \in BOOLEAN
    /\ faults + Cost(out, phase) + (IF fs_ok THEN 0 ELSE 1) <= MaxFaults

BaseCmd == build_base_benchmark_cmd(exe_path, base_args, bconf.size_arg, cur_size)

\* faulty variant: the special pass first
PhaseAfter_SpecialFirst(normal_left, special_left) ==
    IF Len(special_left) > 0 THEN "special"
    ELSE IF Len(normal_left) > 0 THEN "normal"
    ELSE "summary"

\* the pass that follows, given what is left to run
PhaseAfter(normal_left, special_left) ==
    IF Len(normal_left) > 0 THEN "normal"
    ELSE IF Len(special_left) > 0 THEN "special"
    ELSE "summary"

\* faulty variant: an aborted search removes the benchmark's summary
BaseFailed_Cleaning ==
    /\ pc = "search" /\ attempt < MaxAttempts
    /\ \E out \in Outcomes("base") :
         LET files == AfterRun(cwdFiles, out, clock)
             r == run_benchmark_and_get_size(out, files)
         IN  /\ Env("base", out, TRUE)
             /\ ~r.succeeded
             /\ cwdFiles' = files
             /\ clock' = ClockAfter(out, clock)
             /\ faults' = faults + Cost(out, "base")
             /\ Return(1, <<RunEvent("base", cur_size, BaseCmd, out, r)>>)
    /\ recordDir' = [n \in DOMAIN recordDir \ {<<bench_name, ".json">>} |-> recordDir[n]]
    /\ UNCHANGED <<mainVars, mainpc, exitCode, localVars, dataDir>>

\* lines 180-197: the attempt exits nonzero
BaseFailed ==
    /\ pc = "search" /\ attempt < MaxAttempts
    /\ \E out \in Outcomes("base") :
         LET files == AfterRun(cwdFiles, out, clock)
             r == run_benchmark_and_get_size(out, files)
         IN  /\ Env("base", out, TRUE)
             /\ ~r.succeeded
             /\ cwdFiles' = files
             /\ clock' = ClockAfter(out, clock)
             /\ faults' = faults + Cost(out, "base")
             /\ Return(1, <<RunEvent("base", cur_size, BaseCmd, out, r)>>)
    /\ UNCHANGED <<mainVars, mainpc, exitCode, localVars, dataDir, recordDir>>

\* faulty variant: no file counts as a trace of 0 MB, compared with the minimum
BaseNoArtifact_ByThreshold ==
    /\ pc = "search" /\ attempt < MaxAttempts
    /\ \E out \in Outcomes("base") :
         LET files == AfterRun(cwdFiles, out, clock)
             r == run_benchmark_and_get_size(out, files)
         IN  /\ Env("base", out, TRUE)
             /\ r.succeeded /\ r.produced_path = NoFile
             /\ cwdFiles' = files
             /\ clock' = ClockAfter(out, clock)
             /\ faults' = faults + Cost(out, "base")
             /\ log' = Append(log, RunEvent("base", cur_size, BaseCmd, out, r))
             /\ IF BelowMin(r.size_mb, min_size_MB)
                THEN /\ cur_size' = Double(cur_size)
                     /\ UNCHANGED <<pc, base_size, idx_counter, combos, specials>>
                ELSE /\ base_size' = cur_size
                     /\ idx_counter' = 1
                     /\ combos' = NormalCombinations(bconf)
                     /\ specials' = bconf.special_arg_list
                     /\ pc' = PhaseAfter(combos', specials')
                     /\ UNCHANGED cur_size
    /\ attempt' = attempt + 1
    /\ UNCHANGED <<mainVars, mainpc, bi, rc, exitCode, produced_traces,
                   produced_records, dataDir, recordDir>>

\* lines 180-204: the attempt succeeds, no akita_sim_*.sqlite3 is found
BaseNoArtifact ==
    /\ pc = "search" /\ attempt < MaxAttempts
    /\ \E out \in Outcomes("base") :
         LET files == AfterRun(cwdFiles, out, clock)
             r == run_benchmark_and_get_size(out, files)
         IN  /\ Env("base", out, TRUE)
             /\ r.succeeded /\ r.produced_path = NoFile
             /\ cwdFiles' = files
             /\ clock' = ClockAfter(out, clock)
             /\ faults' = faults + Cost(out, "base")
             /\ log' = Append(log, RunEvent("base", cur_size, BaseCmd, out, r))
    /\ cur_size' = Double(cur_size)
    /\ attempt' = attempt + 1
    /\ UNCHANGED <<mainVars, mainpc, bi, rc, exitCode, pc, idx_counter, base_size,
                   produced_traces, produced_records, combos, specials,
                   dataDir, recordDir>>

\* lines 180-216: the file found is smaller than the minimum; it is unlinked
BaseUndersized ==
    /\ pc = "search" /\ attempt < MaxAttempts
    /\ \E out \in Outcomes("base"), unlinked \in BOOLEAN :
         LET files == AfterRun(cwdFiles, out, clock)
             r == run_benchmark_and_get_size(out, files)
         IN  /\ Env("base", out, unlinked)
             /\ r.succeeded /\ r.produced_path # NoFile
             /\ BelowMin(r.size_mb, min_size_MB)
             /\ cwdFiles' = IF unlinked THEN files \ {r.produced_path} ELSE files
             /\ clock' = ClockAfter(out, clock)
             /\ faults' = faults + Cost(out, "base") + (IF unlinked THEN 0 ELSE 1)
             /\ log' = log \o <<RunEvent("base", cur_size, BaseCmd, out, r),
                                [ev |-> "unlink", call |-> bi,
                                 src |-> r.produced_path.id, ok |-> unlinked]>>
    /\ cur_size' = Double(cur_size)
    /\ attempt' = attempt + 1
    /\ UNCHANGED <<mainVars, mainpc, bi, rc, exitCode, pc, idx_counter, base_size,
                   produced_traces, produced_records, combos, specials,
                   dataDir, recordDir>>

\* the base record, lines 239-249
BaseRecord(size_mb, trace_name) ==
    [ id |-> RecordId(bench_id, <<"0">>, idx_counter),
      benchmark |-> bench_name,
      benchmark_cmd |-> Join(<<Basename(exe_path)>> \o Split(base_args)
                             \o <<(bconf.size_arg \o <<" ">> \o Str(cur_size))>>),
      trace_file |-> trace_name,
      mgpusim_commit_SHA |-> MGPUSIM_COMMIT_SHA,
      size |-> SizeField(size_mb),
      comment |-> "base trace" ]

\* lines 180-256: the file found meets the minimum: it is moved to the trace
\* directory and the base record is written
BaseFound ==
    /\ pc = "search" /\ attempt < MaxAttempts
    /\ \E out \in Outcomes("base"), moved \in BOOLEAN :
         LET files == AfterRun(cwdFiles, out, clock)
             r == run_benchmark_and_get_size(out, files)
             trace_filename == format_data_filename(bench_id, <<"0">>, idx_counter)
             dest_name == IF moved THEN trace_filename
                          ELSE AkitaName(r.produced_path)
             record == BaseRecord(r.size_mb, dest_name)
         IN  /\ Env("base", out, moved)
             /\ r.succeeded /\ r.produced_path # NoFile
             /\ ~BelowMin(r.size_mb, min_size_MB)
             /\ cwdFiles' = IF moved THEN files \ {r.produced_path} ELSE files
             /\ dataDir' = IF moved THEN Put(dataDir, trace_filename, r.produced_path)
                           ELSE dataDir
             /\ clock' = ClockAfter(out, clock)
             /\ faults' = faults + Cost(out, "base") + (IF moved THEN 0 ELSE 1)
             /\ recordDir' = write_data_record(recordDir, record)
             /\ produced_records' = Append(produced_records, RecordFileName(record))
             /\ produced_traces' = Append(produced_traces, dest_name)
             /\ log' = log \o <<RunEvent("base", cur_size, BaseCmd, out, r),
                                MoveEvent(r.produced_path, trace_filename, moved),
                                RecordEvent(record)>>
    /\ base_size' = cur_size
    /\ attempt' = attempt + 1
    /\ idx_counter' = 1
    /\ combos' = NormalCombinations(bconf)
    /\ specials' = bconf.special_arg_list
    /\ pc' = PhaseAfter(combos', specials')
    /\ UNCHANGED <<mainVars, mainpc, bi, rc, exitCode, cur_size>>

\* ------------------------------------------- process_benchmark: the sweeps
\* [exe_path] + shlex.split(base_arg) + [size_arg_name, str(base_size)]
SweepCmd == <<exe_path>> \o (IF base_args # <<>> THEN Split(base_args) ELSE <<>>)
            \o <<bconf.size_arg, Str(base_size)>>

RECURSIVE Flatten(_)
Flatten(pairs) ==
    IF Len(pairs) = 0 THEN <<>> ELSE pairs[1] \o Flatten(Tail(pairs))

\* lines 275-284
NormalCmd(combo) ==
    LET z == Zip(bconf.normal_arg_list, combo)
    IN  SweepCmd \o Flatten([i \in 1..Len(z) |-> <<z[i][1], Str(z[i][2])>>])

\* lines 295-305
NormalRecord(combo, size_mb, trace_filename) ==
    LET z == Zip(bconf.normal_arg_list, combo)
    IN  [ id |-> RecordId(bench_id, <<"0">>, idx_counter),
          benchmark |-> bench_name,
          benchmark_cmd |-> Join(<<Basename(exe_path)>> \o Split(base_args)
                                 \o [i \in 1..Len(z) |->
                                       z[i][1] \o <<" ">> \o Str(z[i][2])]),
          trace_file |-> trace_filename,
          mgpusim_commit_SHA |-> MGPUSIM_COMMIT_SHA,
          size |-> SizeField(size_mb),
          comment |-> "" ]

\* lines 323-332
SpecialCmd(special) == SweepCmd \o Split(special)

\* lines 340-357
SpecialRecord(special, size_mb, trace_filename) ==
    [ id |-> RecordId(bench_id, <<"1">>, idx_counter),
      benchmark |-> bench_name,
      benchmark_cmd |-> Join(<<Basename(exe_path)>>
                             \o (IF base_args # <<>> THEN Split(base_args) ELSE <<>>)
                             \o <<bconf.size_arg, Str(base_size)>>
                             \o Split(special)),
      trace_file |-> trace_filename,
      mgpusim_commit_SHA |-> MGPUSIM_COMMIT_SHA,
      size |-> SizeField(size_mb),
      comment |-> "" ]

\* One sweep run, lines 286-318 and 334-370: run the command, write the record
\* whatever the result, move the file found (if any), advance the index.
\* `item` is the combination (normal pass) or the special entry (special pass).
SweepRun(phase, item, normal_left, special_left) ==
    /\ \E out \in Outcomes(phase), moved \in BOOLEAN :
         LET files == AfterRun(cwdFiles, out, clock)
             r == run_benchmark_and_get_size(out, files)
             has_file == r.produced_path # NoFile
             type_id == IF phase = "normal" THEN <<"0">> ELSE <<"1">>
             trace_filename == format_data_filename(bench_id, type_id, idx_counter)
             cmd == IF phase = "normal" THEN NormalCmd(item) ELSE SpecialCmd(item)
             record == IF phase = "normal"
                       THEN NormalRecord(item, r.size_mb, trace_filename)
                       ELSE SpecialRecord(item, r.size_mb, trace_filename)
         IN  /\ Env(phase, out, moved)
             /\ ~has_file => moved
             /\ cwdFiles' = IF has_file /\ moved THEN files \ {r.produced_path} ELSE files
             /\ dataDir' = IF has_file /\ moved
                           THEN Put(dataDir, trace_filename, r.produced_path)
                           ELSE dataDir
             /\ clock' = ClockAfter(out, clock)
             /\ faults' = faults + Cost(out, phase) + (IF moved THEN 0 ELSE 1)
             /\ recordDir' = write_data_record(recordDir, record)
             /\ produced_records' = Append(produced_records, RecordFileName(record))
             /\ produced_traces' = Append(produced_traces, trace_filename)
             /\ log' = log \o <<RunEvent(phase, base_size, cmd, out, r)>>
                           \o (IF has_file
                               THEN <<MoveEvent(r.produced_path, trace_filename, moved)>>
                               ELSE <<>>)
                           \o <<RecordEvent(record)>>
    /\ idx_counter' = Advance(idx_counter)
    /\ combos' = normal_left
    /\ specials' = special_left
    /\ pc' = PhaseAfter(normal_left, special_left)
    /\ UNCHANGED <<mainVars, mainpc, bi, rc, exitCode, cur_size, base_size, attempt>>

\* lines 271-318: one iteration of the normal pass
NormalRun ==
    /\ pc = "normal"
    /\ SweepRun("normal", Head(combos), Tail(combos), specials)

\* lines 321-370: one iteration of the special pass
SpecialRun ==
    /\ pc = "special"
    /\ SweepRun("special", Head(specials), combos, Tail(specials))

\* the file name of the summary, f"{bench_name}.json"
SummaryName(name) == <<name, ".json">>

\* faulty variant: the lists are appended to those of the summary on disk
WriteSummary_Appending ==
    /\ pc = "summary"
    /\ \E written \in BOOLEAN :
         LET name == SummaryName(bench_name)
             old == IF name \in DOMAIN recordDir THEN recordDir[name]
                    ELSE [data |-> <<>>, data_record |-> <<>>]
         IN  /\ faults + (IF written THEN 0 ELSE 1) <= MaxFaults
             /\ faults' = faults + (IF written THEN 0 ELSE 1)
             /\ recordDir' = IF written
                             THEN Put(recordDir, name,
                                      [ benchmark |-> bench_name,
                                        data |-> old.data \o produced_traces,
                                        data_record |-> old.data_record \o produced_records ])
                             ELSE recordDir
             /\ Return(0, <<[ev |-> "summary", call |-> bi, ok |-> written]>>)
    /\ UNCHANGED <<mainVars, mainpc, exitCode, localVars, cwdFiles, dataDir, clock>>

\* lines 372-386: the summary is written (a failure is swallowed); return 0
WriteSummary ==
    /\ pc = "summary"
    /\ \E written \in BOOLEAN :
         /\ faults + (IF written THEN 0 ELSE 1) <= MaxFaults
         /\ faults' = faults + (IF written THEN 0 ELSE 1)
         /\ recordDir' = IF written
                         THEN Put(recordDir, SummaryName(bench_name),
                                  [ benchmark |-> bench_name,
                                    data |-> produced_traces,
                                    data_record |-> produced_records ])
                         ELSE recordDir
         /\ Return(0, <<[ev |-> "summary", call |-> bi, ok |-> written]>>)
    /\ UNCHANGED <<mainVars, mainpc, exitCode, localVars, cwdFiles, dataDir, clock>>

\* ----------------------------------------------------------------- __main__
\* lines 407-409: no benchmark was given
MainNoBenchmarks ==
    /\ mainpc = "validate"
    /\ Len(benchmarks) = 0
    /\ mainpc' = "exited"
    /\ exitCode' = 1
    /\ UNCHANGED <<mainVars, bi, rc, pc, localVars, fsVars, faults, log>>

\* lines 412-415: a requested name is not configured
MainMissing ==
    /\ mainpc = "validate"
    /\ Len(benchmarks) > 0
    /\ \E i \in 1..Len(benchmarks) : benchmarks[i] \notin DOMAIN benchmark_config
    /\ mainpc' = "exited"
    /\ exitCode' = 1
    /\ UNCHANGED <<mainVars, bi, rc, pc, localVars, fsVars, faults, log>>

\* lines 412-418: every name is configured; the loop starts with rc = 0
MainValid ==
    /\ mainpc = "validate"
    /\ Len(benchmarks) > 0
    /\ \A i \in 1..Len(benchmarks) : benchmarks[i] \in DOMAIN benchmark_config
    /\ mainpc' = "loop"
    /\ rc' = 0
    /\ UNCHANGED <<mainVars, bi, exitCode, pc, localVars, fsVars, faults, log>>

\* line 421: sys.exit(rc) after the last benchmark
MainExit ==
    /\ entry = "main" /\ mainpc = "loop" /\ pc = "idle"
    /\ bi > Len(benchmarks)
    /\ mainpc' = "exited"
    /\ exitCode' = rc
    /\ UNCHANGED <<mainVars, bi, rc, pc, localVars, fsVars, faults, log>>

Next ==
    \/ MainNoBenchmarks \/ MainMissing \/ MainValid \/ MainExit
    \/ ProcessUnknown \/ ProcessStart
    \/ BuildNoDir \/ BuildFail \/ BuildOk
    \/ BaseFailed \/ BaseNoArtifact \/ BaseUndersized \/ BaseFound
    \/ NormalRun \/ SpecialRun \/ WriteSummary

Spec == Init /\ [][Next]_vars

\* --------------------------------------------------- file names on their own
\* format_data_filename and the record file name derived from it, applied to
\* the identifiers of two runs
BenchIds == {benchmark_config[n].id : n \in DOMAIN benchmark_config}
TypeIds == {<<"0">>, <<"1">>}
Indexes == {0, 1, 9, 10, 9999, 10000, 10001}

InitNaming ==
    /\ entry = "call" /\ benchmarks = <<>> /\ min_size_MB = 0
    /\ naming = <<>> /\ drive = {} /\ job = <<>> /\ inst = <<>>
    /\ mainpc = "loop" /\ bi = 1 /\ rc = 0 /\ exitCode = -1 /\ pc = "idle"
    /\ cur_size = 0 /\ idx_counter = 0 /\ base_size = NoSize
    /\ produced_traces = <<>> /\ produced_records = <<>>
    /\ combos = <<>> /\ specials = <<>> /\ attempt = 0
    /\ cwdFiles = {} /\ clock = 1 /\ dataDir = <<>> /\ recordDir = <<>>
    /\ faults = 0 /\ log = <<>>

FormatName ==
    /\ Len(naming) < 2
    /\ \E b \in BenchIds, t \in TypeIds, i \in Indexes :
         naming' = Append(naming,
                     [ bench_id |-> b, type_id |-> t, index |-> i,
                       trace |-> format_data_filename(b, t, i),
                       record |-> RecordFileName([id |-> RecordId(b, t, i)]) ])
    /\ UNCHANGED <<entry, benchmarks, min_size_MB, drive, job, inst, mainpc, bi, rc,
                   exitCode, pc, localVars, fsVars, faults, log>>

SpecNaming == InitNaming /\ [][FormatName]_vars

\* ------------------------------------ run_benchmark_and_get_size on its own
\* akita_sim_*.sqlite3 files that may lie in the working directory when the
\* command is run; their names do not follow their modification times
Candidates ==
    { [id |-> 1, mtime |-> 3, size |-> 2097152],
      [id |-> 2, mtime |-> 1, size |-> 5237638],
      [id |-> 3, mtime |-> 4, size |-> 1048576],
      [id |-> 4, mtime |-> 2, size |-> 5237638] }

InitMeasure ==
    /\ entry = "call" /\ benchmarks = <<>> /\ min_size_MB = 0
    /\ naming = <<>> /\ drive = {} /\ job = <<>> /\ inst = <<>>
    /\ mainpc = "loop" /\ bi = 1 /\ rc = 0 /\ exitCode = -1 /\ pc = "idle"
    /\ cur_size = 0 /\ idx_counter = 0 /\ base_size = NoSize
    /\ produced_traces = <<>> /\ produced_records = <<>>
    /\ combos = <<>> /\ specials = <<>> /\ attempt = 0
    /\ cwdFiles \in SUBSET Candidates
    /\ clock = Cardinality(Candidates)
    /\ dataDir = <<>> /\ recordDir = <<>>
    /\ faults = 0 /\ log = <<>>

\* lines 31-62: the command is run and waited for; then the return code is
\* looked at, the working directory is scanned and the newest file measured
Measure ==
    /\ log = <<>>
    /\ \E out \in Outcomes("base") :
         LET files == AfterRun(cwdFiles, out, clock)
             r == run_benchmark_and_get_size(out, files)
         IN  /\ cwdFiles' = files
             /\ clock' = ClockAfter(out, clock)
             /\ log' = <<[ev |-> "measure", before |-> cwdFiles, rc |-> out.rc,
                          after |-> files, result |-> r]>>
    /\ UNCHANGED <<mainVars, mainpc, bi, rc, exitCode, pc, localVars, dataDir,
                   recordDir, faults>>

SpecMeasure == InitMeasure /\ [][Measure]_vars

\* ---------------------------------------------------- google_drive.py
\* The remote drive is a set of items [id, parent, name, folder, content]; the
\* item "root" is not in the set.  A drive path is [parts, slash]: its segments
\* after "My Drive", and whether it is written with a trailing "/".
ROOT == 0
NotFound == -1

\* _find_child_id: the ids files.list may return first (no order is asked for)
_find_child_id(d, parent_id, name, is_folder) ==
    {x.id : x \in {y \in d : y.parent = parent_id /\ y.name = name
                                /\ y.folder = is_folder}}

\* path_to_id from current_id on: the ids it may return, NotFound for a raised
\* FileNotFoundError
RECURSIVE path_to_id(_, _, _)
path_to_id(d, parts, current_id) ==
    IF Len(parts) = 0 THEN {current_id}
    ELSE IF Len(parts) > 1
    THEN LET next == _find_child_id(d, current_id, parts[1], TRUE)
         IN  IF next = {} THEN {NotFound}
             ELSE UNION {path_to_id(d, Tail(parts), n) : n \in next}
    ELSE LET fid == _find_child_id(d, current_id, parts[1], FALSE)
             gid == _find_child_id(d, current_id, parts[1], TRUE)
         IN  IF fid # {} THEN fid ELSE IF gid # {} THEN gid ELSE {NotFound}

Item(d, id) == CHOOSE x \in d : x.id = id
IsFolder(d, id) == id = ROOT \/ Item(d, id).folder

\* a local path is [dir, name]; the two directories are data and data_record
Local(dir) == IF dir = "data_record" THEN recordDir ELSE dataDir
Exists(src) == src.name \in DOMAIN Local(src.dir)
Content(src) == Local(src.dir)[src.name]

\* os.path.dirname and os.path.basename of a drive path
DirnameParts(path) ==
    IF path.slash THEN path.parts ELSE SubSeq(path.parts, 1, Len(path.parts) - 1)
BasenameOf(path) == IF path.slash THEN "" ELSE path.parts[Len(path.parts)]

NoError == "none"
Outcome(err, d, id) == [err |-> err, drive |-> d, id |-> id]

\* lines 222-229: the media is read from src_path, then the file is created
\* in the folder parent_id (existing = NotFound) or the existing file updated
Store(d, src, parent_id, file_name, existing, t) ==
    IF ~Exists(src) THEN Outcome("FileNotFoundError", d, NotFound)
    ELSE IF existing # NotFound
    THEN Outcome(NoError,
                 {IF x.id = existing THEN [x EXCEPT !.content = Content(src)] ELSE x
                    : x \in d},
                 existing)
    ELSE Outcome(NoError,
                 d \cup {[id |-> t + 1, parent |-> parent_id, name |-> file_name,
                          folder |-> FALSE, content |-> Content(src)]},
                 t + 1)

\* upload_file, lines 176-229, with a working network: the outcomes it may have
upload_file(d, src, path, overwrite, t) ==
    UNION { IF target_id = NotFound
            THEN \* lines 206-220
                 { IF parent_id = NotFound
                   THEN Outcome("FileNotFoundError", d, NotFound)
                   ELSE LET created == [id |-> t + 1, parent |-> parent_id,
                                        name |-> BasenameOf(path), folder |-> TRUE,
                                        content |-> ""]
                        IN  Store(d \cup {created}, src, t + 1, src.name,
                                  NotFound, t + 1)
                   : parent_id \in path_to_id(d, DirnameParts(path), ROOT) }
            ELSE IF IsFolder(d, target_id)
            THEN {Store(d, src, target_id, src.name, NotFound, t)}
            ELSE IF overwrite
            THEN {Store(d, src, Item(d, target_id).parent,
                        path.parts[Len(path.parts)], target_id, t)}
            ELSE {Outcome("FileExistsError", d, NotFound)}
          : target_id \in path_to_id(d, path.parts, ROOT) }

\* download_file, lines 129-174, with a working network: the error raised and
\* what is in dst_path afterwards ("" for a file opened and left empty,
\* "absent" for one never opened)
download_file(d, path) ==
    { IF file_id = NotFound
      THEN [err |-> "FileNotFoundError", written |-> "absent"]
      ELSE IF IsFolder(d, file_id)
      THEN [err |-> "HttpError", written |-> ""]
      ELSE [err |-> NoError, written |-> Item(d, file_id).content]
      : file_id \in path_to_id(d, path.parts, ROOT) }

\* the highest id given out so far
MaxId(d) == IF d = {} THEN 0 ELSE CHOOSE n \in {x.id : x \in d} : \A x \in d : x.id <= n

\* ------------------------------------------- a run after an earlier invocation
\* The record directory as an earlier, completed invocation left it, made with
\* a configuration that had one more special entry: per benchmark the records
\* and the summary of 1 + K + S + 1 runs.
PriorNames == {"bfs", "kmeans"}

PriorEntries(name) ==
    LET conf == benchmark_config[name]
        K == Len(NormalCombinations(conf))
        S == Len(conf.special_arg_list) + 1
    IN  [j \in 1..(1 + K + S) |->
           [type_id |-> IF j <= 1 + K THEN <<"0">> ELSE <<"1">>, index |-> j - 1]]

PriorRecord(name, e) ==
    [ id |-> RecordId(benchmark_config[name].id, e.type_id, e.index),
      benchmark |-> name,
      benchmark_cmd |-> <<name>>,
      trace_file |-> format_data_filename(benchmark_config[name].id, e.type_id, e.index),
      mgpusim_commit_SHA |-> MGPUSIM_COMMIT_SHA,
      size |-> SizeField(Measured(5237638)),
      comment |-> IF e.index = 0 THEN "base trace" ELSE "" ]

PriorSummary(name) ==
    LET E == PriorEntries(name)
    IN  [ benchmark |-> name,
          data |-> [j \in 1..Len(E) |-> PriorRecord(name, E[j]).trace_file],
          data_record |-> [j \in 1..Len(E) |-> RecordFileName(PriorRecord(name, E[j]))] ]

PriorRecordDir ==
    LET files == {SummaryName(n) : n \in PriorNames}
                 \cup UNION {{RecordFileName(PriorRecord(n, PriorEntries(n)[j])) :
                                j \in 1..Len(PriorEntries(n))} : n \in PriorNames}
    IN  [f \in files |->
           IF \E n \in PriorNames : f = SummaryName(n)
           THEN PriorSummary(CHOOSE n \in PriorNames : f = SummaryName(n))
           ELSE LET n == CHOOSE n \in PriorNames :
                           \E j \in 1..Len(PriorEntries(n)) :
                             f = RecordFileName(PriorRecord(n, PriorEntries(n)[j]))
                    j == CHOOSE j \in 1..Len(PriorEntries(n)) :
                           f = RecordFileName(PriorRecord(n, PriorEntries(n)[j]))
                IN  PriorRecord(n, PriorEntries(n)[j])]

\* the traces of that invocation, in the trace directory
PriorTrace == [id |-> 0, mtime |-> 0, size |-> 5237638]
PriorDataDir ==
    LET files == UNION {{PriorRecord(n, PriorEntries(n)[j]).trace_file :
                           j \in 1..Len(PriorEntries(n))} : n \in PriorNames}
    IN  [f \in files |-> PriorTrace]

RerunRequests ==
    {[entry |-> "call", names |-> <<n>>] : n \in {"ghost", "atax", "bicg"}}
    \cup {[entry |-> "main", names |-> l] :
            l \in {<<>>, <<"kmeans">>, <<"bfs", "bfs">>, <<"ghost", "bfs">>}}

InitRerun ==
    /\ \E req \in RerunRequests : entry = req.entry /\ benchmarks = req.names
    /\ min_size_MB \in MinSizes
    /\ naming = <<>> /\ drive = {} /\ job = <<>> /\ inst = <<>>
    /\ mainpc = IF entry = "main" THEN "validate" ELSE "loop"
    /\ bi = 1 /\ rc = 0 /\ exitCode = -1 /\ pc = "idle"
    /\ cur_size = 0 /\ idx_counter = 0 /\ base_size = NoSize
    /\ produced_traces = <<>> /\ produced_records = <<>>
    /\ combos = <<>> /\ specials = <<>> /\ attempt = 0
    /\ cwdFiles = {} /\ clock = 1 /\ dataDir = PriorDataDir
    /\ recordDir = PriorRecordDir
    /\ faults = 0 /\ log = <<>>

SpecRerun == InitRerun /\ [][Next]_vars

\* ------------------------------------ upload_data.py and the drive calls
DRIVE_BASE == << <<"Workspace">>, <<"Daisenbot_Dataset">> >>
DrivePath(parts, slash) == [parts |-> parts, slash |-> slash]
TestFolder == DRIVE_BASE \o << <<"test">> >>
Test1 == <<"test1", ".txt">>
Test2 == <<"test2", ".txt">>
NoSuch == <<"nosuch", ".txt">>
LocalFile(dir, name) == [dir |-> dir, name |-> name]

Folder(id, parent, name) ==
    [id |-> id, parent |-> parent, name |-> name, folder |-> TRUE, content |-> ""]

\* the remote drive before the calls: the base folders with data/ and
\* data_record/; the same with the test folder; the same with a file test1.txt
\* left in the test folder by an earlier session
BaseFolders ==
    { Folder(1, ROOT, <<"Workspace">>), Folder(2, 1, <<"Daisenbot_Dataset">>),
      Folder(3, 2, <<"data">>), Folder(4, 2, <<"data_record">>) }
DriveStates ==
    { BaseFolders,
      BaseFolders \cup {Folder(5, 2, <<"test">>)},
      BaseFolders \cup {Folder(5, 2, <<"test">>),
                        [id |-> 6, parent |-> 5, name |-> Test1, folder |-> FALSE,
                         content |-> "old"]} }

Remove(dir, name) == [n \in (DOMAIN dir) \ {name} |-> dir[n]]

\* the local directories before the calls: two test files and what a completed
\* run of bfs left; the same without the trace of a sweep run that produced
\* none; the same without one record file.  Nothing of kmeans' traces is there.
FullData ==
    LET names == {Test1, Test2} \cup {PriorSummary("bfs").data[j] : j \in 1..3}
    IN  [n \in names |-> IF n = Test1 THEN "v1" ELSE IF n = Test2 THEN "v2" ELSE "trace"]
LocalStates ==
    { [data |-> FullData, records |-> PriorRecordDir],
      [data |-> Remove(FullData, PriorSummary("bfs").data[2]), records |-> PriorRecordDir],
      [data |-> FullData,
       records |-> Remove(PriorRecordDir, PriorSummary("bfs").data_record[3])] }

Scenarios == {"single", "multi", "upload"}
UploadNames == {"bfs", "kmeans", "nw"}
Idle(scenario, calls) ==
    [scenario |-> scenario, op |-> "idle", calls |-> calls, pairs |-> <<>>,
     k |-> 1, results |-> <<>>, overwrite |-> FALSE]

InitDrive ==
    /\ entry = "call" /\ benchmarks = <<>> /\ min_size_MB = 0
    /\ naming = <<>> /\ inst = <<>>
    /\ job \in {Idle(sc, 0) : sc \in Scenarios}
    /\ drive \in DriveStates
    /\ clock = MaxId(drive)
    /\ \E l \in LocalStates : dataDir = l.data /\ recordDir = l.records
    /\ mainpc = "loop" /\ bi = 1 /\ rc = 0 /\ exitCode = -1 /\ pc = "idle"
    /\ cur_size = 0 /\ idx_counter = 0 /\ base_size = NoSize
    /\ produced_traces = <<>> /\ produced_records = <<>>
    /\ combos = <<>> /\ specials = <<>> /\ attempt = 0
    /\ cwdFiles = {}
    /\ faults = 0 /\ log = <<>>

driveFixed == <<entry, benchmarks, min_size_MB, naming, inst, mainpc, bi, rc,
                exitCode, pc, localVars, cwdFiles>>

\* what a remote call may do: work, or (a fault) raise HttpError
Remote(outs, d) ==
    outs \cup (IF faults < MaxFaults THEN {Outcome("HttpError", d, NotFound)} ELSE {})
FaultOf(out) == IF out.err = "HttpError" THEN 1 ELSE 0

\* one call of upload_file, as in test_single_upload_download
UploadFile ==
    /\ job = Idle("single", 0)
    /\ \E src \in {LocalFile("data", Test1), LocalFile("data", NoSuch)},
          path \in {DrivePath(TestFolder, TRUE), DrivePath(TestFolder, FALSE),
                    DrivePath(TestFolder \o <<Test1>>, FALSE)},
          overwrite \in BOOLEAN :
         \E out \in Remote(upload_file(drive, src, path, overwrite, clock), drive) :
           /\ drive' = out.drive
           /\ clock' = MaxId(out.drive)
           /\ faults' = faults + FaultOf(out)
           /\ log' = Append(log, [ev |-> "upload_file", src |-> src, path |-> path,
                                  overwrite |-> overwrite, err |-> out.err,
                                  id |-> out.id, before |-> drive])
    /\ job' = Idle("single", 1)
    /\ UNCHANGED <<driveFixed, dataDir, recordDir>>

\* what dst_path holds after a download
Written(dir, dst, written) == IF written = "absent" THEN dir ELSE Put(dir, dst, written)

\* one call of download_file for the file uploaded before, as in
\* test_single_upload_download
DownloadFile ==
    /\ job = Idle("single", 1)
    /\ LET up == log[Len(log)]
           path == DrivePath(TestFolder \o <<up.src.name>>, FALSE)
           dst == <<"got", ".txt">>
       IN  \E res \in download_file(drive, path)
                       \cup (IF faults < MaxFaults
                             THEN {[err |-> "HttpError", written |-> ""]} ELSE {}) :
             /\ dataDir' = Written(dataDir, dst, res.written)
             /\ faults' = faults + FaultOf(res)
             /\ log' = Append(log, [ev |-> "download_file", path |-> path,
                                    dst |-> dst, err |-> res.err])
    /\ job' = Idle("single", 2)
    /\ UNCHANGED <<driveFixed, drive, clock, recordDir>>

Batch(scenario, calls, op, pairs, overwrite) ==
    [scenario |-> scenario, op |-> op, calls |-> calls, pairs |-> pairs,
     k |-> 1, results |-> <<>>, overwrite |-> overwrite]

ToTest(name) == <<LocalFile("data", name), DrivePath(TestFolder, TRUE)>>
FromTest(name, dst) == <<DrivePath(TestFolder \o <<name>>, FALSE), LocalFile("data", dst)>>

\* upload_files is called, as in test_multi_upload_download
StartUploadFiles ==
    /\ job = Idle("multi", 0)
    /\ \E pairs \in { <<ToTest(Test1), ToTest(Test2)>>,
                       <<ToTest(NoSuch), ToTest(Test2)>>,
                       <<ToTest(Test1), ToTest(Test1)>>, <<>> },
          overwrite \in BOOLEAN :
         job' = Batch("multi", 0, "upload_files", pairs, overwrite)
    /\ UNCHANGED <<driveFixed, drive, clock, dataDir, recordDir, faults, log>>

\* download_files is called after it
StartDownloadFiles ==
    /\ job = Idle("multi", 1)
    /\ \E pairs \in { <<FromTest(Test1, <<"got1">>), FromTest(Test2, <<"got2">>)>>,
                       <<FromTest(NoSuch, <<"got1">>), FromTest(Test2, <<"got2">>)>> } :
         job' = Batch("multi", 1, "download_files", pairs, FALSE)
    /\ UNCHANGED <<driveFixed, drive, clock, dataDir, recordDir, faults, log>>

Result(pair, ok, id, err) ==
    [first |-> pair[1], second |-> pair[2], ok |-> ok, id |-> id, err |-> err]
ItemEvent(op, k, err) == [ev |-> "item", op |-> op, k |-> k, err |-> err]

\* faulty variant: an exception of upload_file leaves the loop
StepUpload_Raising ==
    /\ job.op = "upload_files" /\ job.k <= Len(job.pairs)
    /\ LET pair == job.pairs[job.k]
       IN  \E out \in Remote(upload_file(drive, pair[1], pair[2], job.overwrite, clock),
                              drive) :
             /\ drive' = out.drive
             /\ clock' = MaxId(out.drive)
             /\ faults' = faults + FaultOf(out)
             /\ log' = Append(log, ItemEvent(job.op, job.k, out.err))
             /\ job' = IF out.err = NoError
                        THEN [job EXCEPT !.k = job.k + 1,
                                         !.results = Append(job.results,
                                                       Result(pair, TRUE, out.id, out.err))]
                        ELSE Idle(job.scenario, job.calls + 1)
    /\ UNCHANGED <<driveFixed, dataDir, recordDir>>

\* lines 257-262: one iteration of the loop of upload_files
StepUpload ==
    /\ job.op = "upload_files" /\ job.k <= Len(job.pairs)
    /\ LET pair == job.pairs[job.k]
       IN  \E out \in Remote(upload_file(drive, pair[1], pair[2], job.overwrite, clock),
                              drive) :
             /\ drive' = out.drive
             /\ clock' = MaxId(out.drive)
             /\ faults' = faults + FaultOf(out)
             /\ log' = Append(log, ItemEvent(job.op, job.k, out.err))
             /\ job' = [job EXCEPT !.k = job.k + 1,
                                   !.results = Append(job.results,
                                       Result(pair, out.err = NoError, out.id, out.err))]
    /\ UNCHANGED <<driveFixed, dataDir, recordDir>>

\* lines 240-246: one iteration of the loop of download_files
StepDownload ==
    /\ job.op = "download_files" /\ job.k <= Len(job.pairs)
    /\ LET pair == job.pairs[job.k]
       IN  \E res \in download_file(drive, pair[1])
                       \cup (IF faults < MaxFaults
                             THEN {[err |-> "HttpError", written |-> ""]} ELSE {}) :
             /\ dataDir' = Written(dataDir, pair[2].name, res.written)
             /\ faults' = faults + FaultOf(res)
             /\ log' = Append(log, ItemEvent(job.op, job.k, res.err))
             /\ job' = [job EXCEPT !.k = job.k + 1,
                                   !.results = Append(job.results,
                                       Result(pair, res.err = NoError, NotFound, res.err))]
    /\ UNCHANGED <<driveFixed, drive, clock, recordDir>>

\* lines 247 and 263: the loop is over, the results are returned
ReturnResults ==
    /\ job.op \in {"upload_files", "download_files"} /\ job.k > Len(job.pairs)
    /\ log' = Append(log, [ev |-> "returned", op |-> job.op, pairs |-> job.pairs,
                           results |-> job.results])
    /\ job' = Idle(job.scenario, job.calls + 1)
    /\ UNCHANGED <<driveFixed, drive, clock, dataDir, recordDir, faults>>

\* upload_data.py, lines 33-47: the files a summary refers to, in order
Referenced(summary) ==
    [j \in 1..Len(summary.data) |-> LocalFile("data", summary.data[j])]
    \o [j \in 1..Len(summary.data_record) |->
          LocalFile("data_record", summary.data_record[j])]
TargetOf(src) == DrivePath(DRIVE_BASE \o << <<src.dir>> >>, TRUE)
UploadEvent(b, err, missing) ==
    [ev |-> "upload", benchmark |-> b, err |-> err, missing |-> missing]

\* faulty variant: the files found are uploaded although others are missing
Upload_NoCheck ==
    /\ job = Idle("upload", 0)
    /\ \E b \in UploadNames :
         IF SummaryName(b) \notin DOMAIN recordDir
         THEN /\ job' = Idle("upload", 1)
              /\ log' = Append(log, UploadEvent(b, "FileNotFoundError", <<>>))
         ELSE LET all == Referenced(recordDir[SummaryName(b)])
                  missing == SelectSeq(all, LAMBDA x : ~Exists(x))
                  found == SelectSeq(all, Exists)
                  pairs == [j \in 1..Len(found) |-> <<found[j], TargetOf(found[j])>>]
              IN  /\ job' = Batch("upload", 0, "upload_files", pairs, TRUE)
                  /\ log' = Append(log, UploadEvent(b, NoError, missing))
    /\ UNCHANGED <<driveFixed, drive, clock, dataDir, recordDir, faults>>

\* upload(benchmark), lines 12-57, up to the call of upload_files
Upload ==
    /\ job = Idle("upload", 0)
    /\ \E b \in UploadNames :
         IF SummaryName(b) \notin DOMAIN recordDir
         THEN /\ job' = Idle("upload", 1)
              /\ log' = Append(log, UploadEvent(b, "FileNotFoundError", <<>>))
         ELSE LET all == Referenced(recordDir[SummaryName(b)])
                  missing == SelectSeq(all, LAMBDA x : ~Exists(x))
                  found == SelectSeq(all, Exists)
                  pairs == [j \in 1..Len(found) |-> <<found[j], TargetOf(found[j])>>]
              IN  IF missing # <<>>
                  THEN /\ job' = Idle("upload", 1)
                       /\ log' = Append(log, UploadEvent(b, "FileNotFoundError", missing))
                  ELSE /\ job' = Batch("upload", 0, "upload_files", pairs, TRUE)
                       /\ log' = Append(log, UploadEvent(b, NoError, missing))
    /\ UNCHANGED <<driveFixed, drive, clock, dataDir, recordDir, faults>>

NextDrive ==
    \/ UploadFile \/ DownloadFile
    \/ StartUploadFiles \/ StartDownloadFiles
    \/ StepUpload \/ StepDownload \/ ReturnResults
    \/ Upload

SpecDrive == InitDrive /\ [][NextDrive]_vars

\* ------------------------------- two instances in one working directory
\* Two processes run process_benchmark at the same time with the same current
\* directory and the same data directories, one for nw and one for bfs.  A
\* step is what one process does between two points where the other can be
\* scheduled: the start up to the purge, the child process, the scan of the
\* directory, and the handling of what the scan found.  Every build, unlink
\* and write works and every child exits 0 and leaves a trace file; the two
\* make at most MaxAttempts base-size attempts together.
Instances == {1, 2}
TwoNames == <<"nw", "bfs">>
NoResult == [succeeded |-> FALSE, size_mb |-> IntZero, produced_path |-> NoFile]
NewInstance(name) ==
    [ name |-> name, pc |-> "start", cur_size |-> 0, base_size |-> NoSize,
      idx |-> 0, left |-> 0, attempts |-> 0, rcode |-> 0, seen |-> {},
      res |-> NoResult, made |-> {}, traces |-> <<>>, records |-> <<>>,
      status |-> NoSize ]

InitTwo ==
    /\ entry = "call" /\ benchmarks = TwoNames /\ min_size_MB = 5
    /\ naming = <<>> /\ drive = {} /\ job = <<>>
    /\ inst = [i \in Instances |-> NewInstance(TwoNames[i])]
    /\ mainpc = "loop" /\ bi = 1 /\ rc = 0 /\ exitCode = -1 /\ pc = "idle"
    /\ cur_size = 0 /\ idx_counter = 0 /\ base_size = NoSize
    /\ produced_traces = <<>> /\ produced_records = <<>>
    /\ combos = <<>> /\ specials = <<>> /\ attempt = 0
    /\ cwdFiles = {} /\ clock = 1 /\ dataDir = <<>> /\ recordDir = <<>>
    /\ faults = 0 /\ log = <<>>

twoFixed == <<entry, benchmarks, min_size_MB, naming, drive, job, mainpc, bi, rc,
              exitCode, pc, localVars, faults, log>>

TwoConf(i) == benchmark_config[inst[i].name]
TwoPhase(i) == IF inst[i].base_size = NoSize THEN "base" ELSE "sweep"
TwoK(i) == Len(NormalCombinations(TwoConf(i)))
TwoRecord(i, type_id, size_mb, trace_name) ==
    [ id |-> RecordId(TwoConf(i).id, type_id, inst[i].idx),
      benchmark |-> inst[i].name,
      trace_file |-> trace_name,
      size |-> SizeField(size_mb) ]

\* lines 101-178: directories, purge of akita_sim*, build, first size
TwoStart(i) ==
    /\ inst[i].pc = "start"
    /\ cwdFiles' = {}
    /\ inst' = [inst EXCEPT ![i].pc = "run",
                            ![i].cur_size = size_arg_start(TwoConf(i))]
    /\ UNCHANGED <<twoFixed, dataDir, recordDir, clock>>

\* lines 41-42: the child process runs and ends
TwoChild(i) ==
    /\ inst[i].pc = "run"
    /\ TwoPhase(i) = "base" => inst[1].attempts + inst[2].attempts < MaxAttempts
    /\ \E bytes \in TraceBytes(TwoPhase(i)) :
         LET out == [rc |-> 0, bytes |-> bytes]
         IN  /\ cwdFiles' = AfterRun(cwdFiles, out, clock)
             /\ clock' = ClockAfter(out, clock)
             /\ inst' = [inst EXCEPT ![i].pc = "scan", ![i].rcode = out.rc,
                                     ![i].made = @ \cup {clock + 1}]
    /\ UNCHANGED <<twoFixed, dataDir, recordDir>>

\* faulty variant: only the files its own child left are looked at
TwoScan_OwnFiles(i) ==
    /\ inst[i].pc = "scan"
    /\ inst' = [inst EXCEPT
                  ![i].pc = "handle",
                  ![i].seen = cwdFiles,
                  ![i].res = run_benchmark_and_get_size(
                               [rc |-> inst[i].rcode],
                               {f \in cwdFiles : f.id \in inst[i].made})]
    /\ UNCHANGED <<twoFixed, fsVars>>

\* lines 43-62: the return code is looked at and the directory scanned
TwoScan(i) ==
    /\ inst[i].pc = "scan"
    /\ inst' = [inst EXCEPT
                  ![i].pc = "handle",
                  ![i].seen = cwdFiles,
                  ![i].res = run_benchmark_and_get_size([rc |-> inst[i].rcode], cwdFiles)]
    /\ UNCHANGED <<twoFixed, fsVars>>

\* lines 193-256 (base-size search) and 286-318, 334-370 (sweeps): what is
\* done with the result of the scan
TwoHandle(i) ==
    /\ inst[i].pc = "handle"
    /\ LET s == inst[i]
           r == s.res
           f == r.produced_path
           here == f \in cwdFiles
           type_id == IF s.idx <= TwoK(i) THEN <<"0">> ELSE <<"1">>
           trace_filename == format_data_filename(TwoConf(i).id, type_id, s.idx)
           todo == TwoK(i) + Len(TwoConf(i).special_arg_list)
       IN  IF TwoPhase(i) = "base" /\ ~r.succeeded
           THEN /\ inst' = [inst EXCEPT ![i].pc = "done", ![i].status = 1]
                /\ UNCHANGED <<cwdFiles, dataDir, recordDir>>
           ELSE IF TwoPhase(i) = "base" /\ f = NoFile
           THEN /\ inst' = [inst EXCEPT ![i].pc = "run", ![i].attempts = @ + 1,
                                        ![i].cur_size = Double(s.cur_size)]
                /\ UNCHANGED <<cwdFiles, dataDir, recordDir>>
           ELSE IF TwoPhase(i) = "base" /\ BelowMin(r.size_mb, min_size_MB)
           THEN /\ cwdFiles' = cwdFiles \ {f}
                /\ inst' = [inst EXCEPT ![i].pc = "run", ![i].attempts = @ + 1,
                                        ![i].cur_size = Double(s.cur_size)]
                /\ UNCHANGED <<dataDir, recordDir>>
           ELSE IF TwoPhase(i) = "base"
           THEN LET dest_name == IF here THEN trace_filename ELSE AkitaName(f)
                    record == TwoRecord(i, type_id, r.size_mb, dest_name)
                IN  /\ cwdFiles' = cwdFiles \ {f}
                    /\ dataDir' = IF here THEN Put(dataDir, trace_filename, f)
                                   ELSE dataDir
                    /\ recordDir' = Put(recordDir, RecordFileName(record), record)
                    /\ inst' = [inst EXCEPT
                                  ![i].pc = IF todo > 0 THEN "run" ELSE "summary",
                                  ![i].attempts = @ + 1,
                                  ![i].base_size = s.cur_size,
                                  ![i].idx = 1, ![i].left = todo,
                                  ![i].traces = Append(@, dest_name),
                                  ![i].records = Append(@, RecordFileName(record))]
           ELSE LET record == TwoRecord(i, type_id, r.size_mb, trace_filename)
                IN  /\ cwdFiles' = cwdFiles \ {f}
                    /\ dataDir' = IF f # NoFile /\ here
                                   THEN Put(dataDir, trace_filename, f) ELSE dataDir
                    /\ recordDir' = Put(recordDir, RecordFileName(record), record)
                    /\ inst' = [inst EXCEPT
                                  ![i].pc = IF s.left > 1 THEN "run" ELSE "summary",
                                  ![i].idx = Advance(s.idx), ![i].left = s.left - 1,
                                  ![i].traces = Append(@, trace_filename),
                                  ![i].records = Append(@, RecordFileName(record))]
    /\ UNCHANGED <<twoFixed, clock>>

\* lines 372-386
TwoSummary(i) ==
    /\ inst[i].pc = "summary"
    /\ recordDir' = Put(recordDir, SummaryName(inst[i].name),
                        [ benchmark |-> inst[i].name, data |-> inst[i].traces,
                          data_record |-> inst[i].records ])
    /\ inst' = [inst EXCEPT ![i].pc = "done", ![i].status = 0]
    /\ UNCHANGED <<twoFixed, cwdFiles, dataDir, clock>>

NextTwo ==
    \E i \in Instances :
      TwoStart(i) \/ TwoChild(i) \/ TwoScan(i) \/ TwoHandle(i) \/ TwoSummary(i)

SpecTwo == InitTwo /\ [][NextTwo]_vars

\* ======================================================================
\* Properties
\* ======================================================================
\* reading the log
CallsMade == {log[i].call : i \in 1..Len(log)}
RunsOf(c, phase) ==
    SelectSeq(log, LAMBDA e : e.ev = "run" /\ e.call = c /\ e.phase = phase)
SweepRunsOf(c) ==
    SelectSeq(log, LAMBDA e : e.ev = "run" /\ e.call = c /\ e.phase # "base")
RecordsOf(c) == SelectSeq(log, LAMBDA e : e.ev = "record" /\ e.call = c)
ReturnsOf(c) == SelectSeq(log, LAMBDA e : e.ev = "return" /\ e.call = c)
ConfOf(c) == benchmark_config[benchmarks[c]]

RECURSIVE Pow2(_)
Pow2(n) == IF n = 0 THEN 1 ELSE 2 * Pow2(n - 1)

\* the number of combinations the configuration asks for: the product of the
\* lengths of the flags' value lists, none without flags
RECURSIVE LenProduct(_, _)
LenProduct(conf, i) ==
    IF i > Len(conf.normal_arg_list) THEN 1
    ELSE LET key == LStripDash(conf.normal_arg_list[i])
             n == IF key \in DOMAIN conf.normal_arg_values
                  THEN Len(conf.normal_arg_values[key]) ELSE 0
         IN  n * LenProduct(conf, i + 1)
PlannedNormal(conf) == IF Len(conf.normal_arg_list) = 0 THEN 0 ELSE LenProduct(conf, 1)
PlannedSpecial(conf) == Len(conf.special_arg_list)

\* the identifier D<bench_id><type_id><index, at least four digits>
IdOf(conf, type_id, index) == <<"D">> \o conf.id \o <<type_id>> \o ZeroPad(index)

\* a base-size attempt that found a file of at least the minimum size
Meets(e) == e.found # 0 /\ e.size_mb.c >= min_size_MB * 100

\* C1: when the base size is accepted, the attempts were made at start,
\* 2*start, 4*start, ..., none failed, the last one is the first whose measured
\* trace size is at least the minimum, its size is the base size every sweep run
\* uses, and the base record's size field is that measured size and " MB".
C1_BaseSizeIsSmallest ==
    \A c \in CallsMade :
      LET A == RunsOf(c, "base")
          R == RecordsOf(c)
          n == Len(A)
      IN  Len(R) > 0 =>
            /\ n >= 1
            /\ \A j \in 1..n :
                 A[j].size = size_arg_start(ConfOf(c)) * Pow2(j - 1) /\ A[j].rc = 0
            /\ Meets(A[n])
            /\ \A j \in 1..(n - 1) : ~Meets(A[j])
            /\ R[1].doc.comment = "base trace"
            /\ R[1].doc.size = FloatStr(A[n].size_mb.c) \o <<" ", "M", "B">>
            /\ \A j \in 1..Len(SweepRunsOf(c)) : SweepRunsOf(c)[j].size = A[n].size
            /\ (c = bi /\ pc # "idle") => base_size = A[n].size

\* C1 witness: the third attempt is accepted after one without a file and an
\* undersized one
C1_Witness ==
    \E c \in CallsMade :
      LET A == RunsOf(c, "base")
      IN  /\ Len(RecordsOf(c)) > 0 /\ Len(A) = 3
          /\ A[1].found = 0 /\ A[2].found # 0
          /\ size_arg_start(ConfOf(c)) = 1 /\ base_size = 4

FailedBaseRun(e) == e.ev = "run" /\ e.phase = "base" /\ e.rc # 0

\* C2: a base-size attempt that exits nonzero is followed at once by the return
\* of status 1; the call wrote no record and no summary and ran no sweep command.
C2_BaseFailureAborts ==
    \A i \in 1..Len(log) :
      FailedBaseRun(log[i]) =>
        LET c == log[i].call
        IN  /\ i < Len(log)
            /\ log[i + 1] = [ev |-> "return", call |-> c, status |-> 1]
            /\ RecordsOf(c) = <<>>
            /\ SweepRunsOf(c) = <<>>
            /\ \A k \in 1..Len(log) :
                 log[k].call = c => log[k].ev # "summary" /\ k <= i + 1

\* C2 witness: the second attempt (at the doubled size) fails
C2_Witness ==
    \E i \in 1..Len(log) :
      /\ FailedBaseRun(log[i])
      /\ size_arg_start(ConfOf(log[i].call)) = 2 /\ log[i].size = 4

FailedSweepRun(e) == e.ev = "run" /\ e.phase # "base" /\ e.rc # 0

\* C3: a sweep run that exits nonzero is followed by its record, of size
\* "0 MB", at the run's index; the index advances by one for the next run; and
\* the call returns 0 after all planned sweep runs.
C3_SweepFailureIsRecorded ==
    \A i \in 1..Len(log) :
      FailedSweepRun(log[i]) =>
        LET c == log[i].call
            e == log[i]
            type_id == IF e.phase = "normal" THEN "0" ELSE "1"
            later == {k \in (i + 1)..Len(log) : log[k].ev = "run" /\ log[k].call = c}
        IN  /\ i < Len(log)
            /\ log[i + 1].ev = "record" /\ log[i + 1].call = c
            /\ log[i + 1].doc.size = <<"0", " ", "M", "B">>
            /\ log[i + 1].doc.id = IdOf(ConfOf(c), type_id, e.index)
            /\ log[i + 1].file = IdOf(ConfOf(c), type_id, e.index) \o <<".json">>
            /\ (i + 1 = Len(log)) => idx_counter = e.index + 1 /\ pc # "idle"
            /\ \A k \in later :
                 (\A m \in later : k <= m) => log[k].index = e.index + 1
            /\ \A k \in 1..Len(ReturnsOf(c)) :
                 /\ ReturnsOf(c)[k].status = 0
                 /\ Len(SweepRunsOf(c)) =
                      PlannedNormal(ConfOf(c)) + PlannedSpecial(ConfOf(c))

\* C3 witness: a call returned 0 although its second normal run failed
C3_Witness ==
    \E i \in 1..Len(log) :
      /\ FailedSweepRun(log[i]) /\ log[i].phase = "normal" /\ log[i].index = 2
      /\ ReturnsOf(log[i].call) # <<>>

\* C4: the normal runs have the indices 1, 2, ..; a special run starts only
\* after all K planned normal runs, and the special runs have the indices
\* K+1, K+2, ..; their records carry these indices.
C4_SharedIndexCounter ==
    \A c \in CallsMade :
      LET N == RunsOf(c, "normal")
          S == RunsOf(c, "special")
          R == RecordsOf(c)
          K == PlannedNormal(ConfOf(c))
      IN  /\ \A j \in 1..Len(N) : N[j].index = j
          /\ Len(S) > 0 => Len(N) = K
          /\ \A j \in 1..Len(S) : S[j].index = K + j
          /\ \A j \in 1..Len(S) : R[1 + K + j].doc.id = IdOf(ConfOf(c), "1", K + j)

\* C4 witness: the second special run has index 4 after two normal runs, one
\* of which failed
C4_Witness ==
    \E c \in CallsMade :
      /\ Len(RunsOf(c, "special")) = 2
      /\ RunsOf(c, "special")[2].index = 4
      /\ \E j \in 1..2 : RunsOf(c, "normal")[j].rc # 0

\* the values of the j-th combination in lexicographic order: flag i takes the
\* value at position ((j-1) div (number of combinations of the later flags))
\* mod (number of its values)
ValuesOf(conf, i) ==
    LET key == LStripDash(conf.normal_arg_list[i])
    IN  IF key \in DOMAIN conf.normal_arg_values
        THEN conf.normal_arg_values[key] ELSE <<>>
LexCombo(conf, j) ==
    [i \in 1..Len(conf.normal_arg_list) |->
        ValuesOf(conf, i)[(((j - 1) \div LenProduct(conf, i + 1))
                           % Len(ValuesOf(conf, i))) + 1]]
\* the flag and value tokens at the end of a normal run's command
FlagTokens(conf, cmd) ==
    LET n == Len(conf.normal_arg_list)
    IN  [i \in 1..n |-> <<cmd[Len(cmd) - 2 * (n - i) - 1], cmd[Len(cmd) - 2 * (n - i)]>>]
FirOrder == << <<1, 10>>, <<1, 20>>, <<2, 10>>, <<2, 20>> >>

\* C5: the j-th normal run has index j and runs the j-th combination of the
\* flags' values in lexicographic order (last flag fastest); never more runs
\* than combinations, all of them when the call returns 0; for fir, flags -a
\* and -b with a:[1,2], b:[10,20], the order is (1,10),(1,20),(2,10),(2,20).
C5_LexicographicOrder ==
    \A c \in CallsMade :
      LET N == RunsOf(c, "normal")
          conf == ConfOf(c)
      IN  /\ Len(N) > 0 => Len(N) <= PlannedNormal(conf)
          /\ \A j \in 1..Len(N) :
               /\ N[j].index = j
               /\ FlagTokens(conf, N[j].cmd) =
                    [i \in 1..Len(conf.normal_arg_list) |->
                       <<conf.normal_arg_list[i], Str(LexCombo(conf, j)[i])>>]
               /\ benchmarks[c] = "fir" =>
                    FlagTokens(conf, N[j].cmd) =
                      << <<(<<"-", "a">>), Str(FirOrder[j][1])>>,
                         <<(<<"-", "b">>), Str(FirOrder[j][2])>> >>
          /\ \A k \in 1..Len(ReturnsOf(c)) :
               ReturnsOf(c)[k].status = 0 => Len(N) = PlannedNormal(conf)

\* C5 witness: all four combinations of fir were run
C5_Witness ==
    \E c \in CallsMade :
      /\ benchmarks[c] = "fir" /\ Len(RunsOf(c, "normal")) = 4
      /\ RunsOf(c, "normal")[4].index = 4

\* C6: a call that returned 0 wrote exactly 1+K+S records: the base record
\* (index 0, type "0", comment "base trace"), the type-"0" records 1..K, the
\* type-"1" records K+1..K+S, each in its own file, whatever the number of
\* base-size attempts; these are the record files it lists for the summary.
C6_RecordsWritten ==
    \A c \in CallsMade :
      LET R == RecordsOf(c)
          conf == ConfOf(c)
          K == PlannedNormal(conf)
          S == PlannedSpecial(conf)
          ExpectedId(j) == IF j = 1 THEN IdOf(conf, "0", 0)
                           ELSE IF j <= 1 + K THEN IdOf(conf, "0", j - 1)
                           ELSE IdOf(conf, "1", j - 1)
      IN  (ReturnsOf(c) # <<>> /\ ReturnsOf(c)[1].status = 0) =>
            /\ Len(R) = 1 + K + S
            /\ \A j \in 1..Len(R) :
                 /\ R[j].doc.id = ExpectedId(j)
                 /\ R[j].file = ExpectedId(j) \o <<".json">>
                 /\ R[j].doc.comment = IF j = 1 THEN "base trace" ELSE ""
            /\ \A j, k \in 1..Len(R) : j # k => R[j].file # R[k].file
            /\ (log[Len(log)].call = c) =>
                 /\ produced_records = [j \in 1..Len(R) |-> R[j].file]
                 /\ \A j \in 1..Len(R) :
                      /\ R[j].file \in DOMAIN recordDir
                      /\ recordDir[R[j].file] = R[j].doc

\* C6 witness: kmeans returned 0 with five records after two attempts below
\* the minimum
C6_Witness ==
    \E c \in CallsMade :
      /\ ReturnsOf(c) # <<>> /\ ReturnsOf(c)[1].status = 0
      /\ Len(RunsOf(c, "base")) = 3
      /\ Len(RecordsOf(c)) = 5

\* reading a file name back: "D", two characters of bench_id, one of type_id,
\* the digits of the index, the extension
ParseDataFilename(name) ==
    [ prefix |-> name[1],
      bench_id |-> SubSeq(name, 2, 3),
      type_id |-> SubSeq(name, 4, 4),
      index |-> ParseInt(SubSeq(name, 5, Len(name) - 1)),
      ext |-> name[Len(name)] ]

\* the decimal digits of n, zero filled on the left to four digits
FourDigits(n) ==
    LET d == Str(n)
    IN  IF Len(d) >= 4 THEN d
        ELSE [i \in 1..4 |-> IF i <= 4 - Len(d) THEN "0" ELSE d[i - (4 - Len(d))]]

Configured(name) == name \in DOMAIN benchmark_config
AllConfigured == \A i \in 1..Len(benchmarks) : Configured(benchmarks[i])
CallEvents == SelectSeq(log, LAMBDA e : e.ev = "call")
ReturnEvents == SelectSeq(log, LAMBDA e : e.ev = "return")
AnyFailed == \E k \in 1..Len(ReturnEvents) : ReturnEvents[k].status # 0

\* C8 as claimed: when __main__ has exited for a request of several benchmarks,
\* every requested benchmark was processed, in the given order, and the exit
\* status is 0 iff every benchmark returned 0.
C8_AsClaimed ==
    (entry = "main" /\ mainpc = "exited" /\ Len(benchmarks) >= 2) =>
      /\ [k \in 1..Len(CallEvents) |-> CallEvents[k].name] = benchmarks
      /\ Len(ReturnEvents) = Len(benchmarks)
      /\ exitCode = IF AnyFailed THEN 1 ELSE 0

\* C8 amended: the calls are made one after another in the given order, a call
\* starting only when the one before has returned, whatever its status; rc is
\* the OR of the statuses returned so far; when all requested names are
\* configured __main__ exits after every benchmark was processed, with the OR
\* of their statuses (0 iff all returned 0); when a requested name is not
\* configured it exits with 1 and no benchmark was processed.
C8_SequentialOrExit ==
    entry = "main" =>
      /\ \A k \in 1..Len(CallEvents) :
           CallEvents[k].call = k /\ CallEvents[k].name = benchmarks[k]
      /\ \A i \in 2..Len(log) :
           log[i].ev = "call" =>
             log[i - 1].ev = "return" /\ log[i - 1].call = log[i].call - 1
      /\ \A i \in 2..Len(log) : log[i - 1].call <= log[i].call
      /\ rc = (IF AnyFailed THEN 1 ELSE 0)
      /\ mainpc = "exited" =>
           IF AllConfigured /\ Len(benchmarks) > 0
           THEN /\ Len(CallEvents) = Len(benchmarks)
                /\ Len(ReturnEvents) = Len(benchmarks)
                /\ exitCode = IF AnyFailed THEN 1 ELSE 0
           ELSE exitCode = 1 /\ log = <<>>

\* C8 witness: __main__ exited with 1 after a first benchmark that returned 1
\* and a second that was processed to the end and returned 0
C8_Witness ==
    /\ entry = "main" /\ mainpc = "exited" /\ exitCode = 1
    /\ Len(ReturnEvents) = 2
    /\ ReturnEvents[1].status = 1 /\ ReturnEvents[2].status = 0
    /\ Len(RecordsOf(2)) > 0

BuiltOk(c) == \E i \in 1..Len(log) : log[i] = [ev |-> "build", call |-> c, ok |-> TRUE]
EventsOf(c) == SelectSeq(log, LAMBDA e : e.call = c)

\* C9: a call whose name is not configured, whose directory is missing or
\* whose build failed returns 1 at once; without a successful build a call
\* runs no command, writes no record and no summary, and leaves the trace and
\* record directories as they were; every run comes after the successful
\* build of its call.
C9_FatalPreconditions ==
    /\ \A c \in CallsMade :
         /\ ~Configured(benchmarks[c]) =>
              EventsOf(c) = <<[ev |-> "call", call |-> c, name |-> benchmarks[c]],
                              [ev |-> "return", call |-> c, status |-> 1]>>
         /\ \A i \in 1..Len(log) :
              (log[i].call = c /\ (log[i].ev = "nodir"
                                   \/ (log[i].ev = "build" /\ ~log[i].ok))) =>
                /\ i < Len(log)
                /\ log[i + 1] = [ev |-> "return", call |-> c, status |-> 1]
                /\ ~BuiltOk(c)
         /\ ~BuiltOk(c) =>
              \A i \in 1..Len(log) :
                log[i].call = c => log[i].ev \in {"call", "nodir", "build", "return"}
    /\ \A i \in 1..Len(log) :
         log[i].ev \in {"run", "record", "summary"} =>
           \E k \in 1..(i - 1) : log[k] = [ev |-> "build", call |-> log[i].call, ok |-> TRUE]
    /\ (\A c \in CallsMade : ~BuiltOk(c)) => recordDir = <<>> /\ dataDir = <<>>

\* C9 witness: the build of the first benchmark failed and the second
\* benchmark was run
C9_Witness ==
    /\ \E i \in 1..Len(log) : log[i] = [ev |-> "build", call |-> 1, ok |-> FALSE]
    /\ ReturnsOf(1) = <<[ev |-> "return", call |-> 1, status |-> 1]>>
    /\ RunsOf(2, "base") # <<>>

\* C10 as claimed: when a move fails, the record of that run (base, normal or
\* special) still names the deterministic file name as its trace file.
C10_NominalNameOnMoveFailure ==
    \A i \in 1..Len(log) :
      (log[i].ev = "move" /\ ~log[i].ok) =>
        /\ i < Len(log)
        /\ log[i + 1].ev = "record"
        /\ log[i + 1].doc.trace_file = log[i].dst

\* the lists a call gives to its summary: the trace file named by each of its
\* records, and its record files, in the order written
ListsOf(c) ==
    LET R == RecordsOf(c)
    IN  [ benchmark |-> benchmarks[c],
          data |-> [j \in 1..Len(R) |-> R[j].doc.trace_file],
          data_record |-> [j \in 1..Len(R) |-> R[j].file] ]
Last(S) == CHOOSE i \in S : \A k \in S : k <= i
CompletedFor(b) ==
    {i \in 1..Len(log) : log[i].ev = "return" /\ log[i].status = 0
                          /\ benchmarks[log[i].call] = b}
WrittenFor(b) ==
    {i \in 1..Len(log) : log[i].ev = "summary" /\ log[i].ok
                          /\ benchmarks[log[i].call] = b}

C12_ThreeOutcomes ==
    \A i \in 1..Len(log) :
      LET e == log[i]
          r == e.result
      IN  /\ e.rc # 0 =>
                r = [succeeded |-> FALSE, size_mb |-> IntZero, produced_path |-> NoFile]
          /\ (e.rc = 0 /\ e.after = {}) =>
                r = [succeeded |-> TRUE, size_mb |-> IntZero, produced_path |-> NoFile]
          /\ (e.rc = 0 /\ e.after # {}) =>
                /\ r.succeeded
                /\ r.produced_path \in e.after
                /\ r.size_mb = [float |-> TRUE, c |-> SizeMB(r.produced_path.size)]

\* C12 witness: the command exited nonzero in a working directory that holds
\* earlier files and the one it left itself
C12_Witness ==
    \E i \in 1..Len(log) :
      /\ log[i].rc # 0
      /\ Cardinality(log[i].before) >= 1
      /\ Cardinality(log[i].after) > Cardinality(log[i].before)

\* C18: after a zero exit with several akita_sim_*.sqlite3 files in the working
\* directory, the file reported is the one modified last, the size reported is
\* its size, and every file that lay there is still there.
C18_NewestSelected ==
    \A i \in 1..Len(log) :
      LET e == log[i]
          r == e.result
      IN  (e.rc = 0 /\ Cardinality(e.after) >= 2) =>
            /\ r.produced_path \in e.after
            /\ \A g \in e.after : g.mtime <= r.produced_path.mtime
            /\ r.size_mb.c = SizeMB(r.produced_path.size)
            /\ cwdFiles = e.after
            /\ e.before \subseteq cwdFiles

\* C18 witness: three files lay there, the command left none, and the file
\* reported is not the one with the greatest number in its name
C18_Witness ==
    \E i \in 1..Len(log) :
      /\ log[i].rc = 0
      /\ Cardinality(log[i].before) = 3 /\ log[i].after = log[i].before
      /\ \E g \in log[i].after : g.id > log[i].result.produced_path.id

\* the local files a benchmark's summary names that are not there
NamedBy(b) ==
    LET summary == recordDir[SummaryName(b)]
    IN  [j \in 1..Len(summary.data) |-> [dir |-> "data", name |-> summary.data[j]]]
        \o [j \in 1..Len(summary.data_record) |->
              [dir |-> "data_record", name |-> summary.data_record[j]]]
IsThere(f) ==
    IF f.dir = "data" THEN f.name \in DOMAIN dataDir ELSE f.name \in DOMAIN recordDir
ItemsOf(op) == SelectSeq(log, LAMBDA e : e.ev = "item" /\ e.op = op)

\* C13: upload(benchmark) looks at every trace file and every record file the
\* summary names before anything is uploaded: if one of them (or the summary)
\* is missing it raises FileNotFoundError naming all the missing ones, no
\* upload was attempted and the remote drive is as it was; otherwise all of
\* them, traces then records, in the summary's order, are given to
\* upload_files.
C13_CheckedBeforeUpload ==
    \A i \in 1..Len(log) :
      log[i].ev = "upload" =>
        LET b == log[i].benchmark
            has_summary == SummaryName(b) \in DOMAIN recordDir
            named == IF has_summary THEN NamedBy(b) ELSE <<>>
            gone == {j \in 1..Len(named) : ~IsThere(named[j])}
        IN  IF ~has_summary \/ gone # {}
            THEN /\ log[i].err = "FileNotFoundError"
                 /\ {log[i].missing[j] : j \in 1..Len(log[i].missing)}
                      = {named[j] : j \in gone}
                 /\ i = Len(log)
                 /\ job.op = "idle" /\ job.results = <<>>
                 /\ drive \in DriveStates
            ELSE /\ log[i].err = NoError
                 /\ job.op = "upload_files" =>
                      /\ Len(job.pairs) = Len(named)
                      /\ \A j \in 1..Len(named) :
                           /\ job.pairs[j][1] = named[j]
                           /\ job.pairs[j][2].parts = DRIVE_BASE \o << <<named[j].dir>> >>
                 /\ Len(ItemsOf("upload_files")) <= Len(named)

\* C13 witness: all traces of bfs are there and one record file is not;
\* upload("bfs") raised
C13_Witness ==
    \E i \in 1..Len(log) :
      /\ log[i].ev = "upload" /\ log[i].benchmark = "bfs"
      /\ log[i].err = "FileNotFoundError"
      /\ Len(log[i].missing) = 1 /\ log[i].missing[1].dir = "data_record"

\* C14 as claimed: when upload_file(src, <folder path>, overwrite=True) has
\* returned for a folder that exists, download_file(<folder path>/<basename of
\* src>, dst), unless the network fails, writes to dst the content of src,
\* whatever the folder held before.
C14_RoundTrip ==
    \A i \in 2..Len(log) :
      LET up == log[i - 1]
          down == log[i]
      IN  ( /\ down.ev = "download_file" /\ up.ev = "upload_file"
            /\ up.err = NoError /\ up.overwrite /\ up.path.parts = TestFolder
            /\ down.err # "HttpError" ) =>
            /\ down.err = NoError
            /\ down.dst \in DOMAIN dataDir
            /\ dataDir[down.dst] = dataDir[up.src.name]

\* the "returned" events
Returned == {i \in 1..Len(log) : log[i].ev = "returned"}

\* C20: upload_files and download_files return one result per pair, in the
\* order of the pairs; every pair was attempted once, in order, whether or not
\* an earlier one raised; the result of a pair says it failed, with the error,
\* exactly when its attempt raised; and each call made has returned.
C20_PerItemIsolation ==
    /\ \A i \in Returned :
         LET e == log[i]
             I == ItemsOf(e.op)
         IN  /\ Len(e.results) = Len(e.pairs)
             /\ Len(I) = Len(e.pairs)
             /\ \A j \in 1..Len(e.pairs) :
                  /\ e.results[j].first = e.pairs[j][1]
                  /\ e.results[j].second = e.pairs[j][2]
                  /\ I[j].k = j
                  /\ e.results[j].ok <=> (I[j].err = NoError)
                  /\ e.results[j].err = I[j].err
                  /\ (e.op = "upload_files" /\ e.results[j].ok) =>
                       \E x \in drive : x.id = e.results[j].id /\ ~x.folder
    /\ job.op \in {"upload_files", "download_files"} =>
         /\ Len(job.results) = job.k - 1
         /\ Len(ItemsOf(job.op)) = job.k - 1
         /\ Cardinality(Returned) = job.calls
    /\ (job.op = "idle" /\ job.scenario = "multi") =>
         Cardinality(Returned) = job.calls

\* C20 witness: both calls have returned two results, the first pair of each
\* failed and the second worked
C20_Witness ==
    /\ Cardinality(Returned) = 2
    /\ \A i \in Returned :
         /\ Len(log[i].results) = 2
         /\ ~log[i].results[1].ok /\ log[i].results[2].ok

\* the files instance i has in the data directory under its own names
OwnTraces(i) ==
    {n \in DOMAIN dataDir : SubSeq(n, 2, 3) = benchmark_config[inst[i].name].id}
Other(i) == CHOOSE j \in Instances : j # i

\* C15: with two instances in one working directory, what an instance's scan
\* reports after its child exited 0 is the newest akita_sim file in the
\* directory at that moment whichever instance's child left it (none if the
\* directory is empty then, even though its own child left one); every file
\* was left by the child of exactly one instance; and what an instance has
\* under its own names in the data directory is a file left by either.
C15_ScanIgnoresTheMaker ==
    /\ \A i \in Instances :
         inst[i].pc = "handle" =>
           LET r == inst[i].res
           IN  /\ r.succeeded
               /\ inst[i].seen = {} => r.produced_path = NoFile
               /\ inst[i].seen # {} =>
                    /\ r.produced_path \in inst[i].seen
                    /\ \A g \in inst[i].seen : g.mtime <= r.produced_path.mtime
    /\ inst[1].made \cap inst[2].made = {}
    /\ \A i \in Instances : \A n \in OwnTraces(i) :
         dataDir[n].id \in inst[1].made \cup inst[2].made

\* C15 witness: an instance has, under its own base trace name and described by
\* its own base record, a file that the other instance's child left, after
\* its own file was purged by the other's start
C15_Witness ==
    \E i \in Instances :
      LET name == format_data_filename(benchmark_config[inst[i].name].id, <<"0">>, 0)
      IN  /\ name \in DOMAIN dataDir
          /\ dataDir[name].id \in inst[Other(i)].made
          /\ inst[i].records # <<>>
          /\ recordDir[inst[i].records[1]].trace_file = name
          /\ inst[i].attempts = 1

\* a base-size attempt that exited 0 and left the search going: no file, or a
\* file below the minimum
KeepsSearching(e) == e.rc = 0 /\ ~Meets(e)

\* C16: for a benchmark whose starting size is 0, given or by default, every
\* base-size attempt is made at size 0; and as long as every attempt so far
\* exited 0 with no file or a file below the minimum, the call is still
\* searching at size 0: it has accepted no base size, written no record and
\* not returned.
C16_ZeroNeverAdvances ==
    \A c \in CallsMade :
      (Configured(benchmarks[c]) /\ size_arg_start(ConfOf(c)) = 0) =>
        LET A == RunsOf(c, "base")
        IN  /\ \A j \in 1..Len(A) : A[j].size = 0
            /\ (BuiltOk(c) /\ \A j \in 1..Len(A) : KeepsSearching(A[j])) =>
                 /\ c = bi /\ pc = "search"
                 /\ cur_size = 0 /\ base_size = NoSize
                 /\ RecordsOf(c) = <<>> /\ ReturnsOf(c) = <<>>
                 /\ SweepRunsOf(c) = <<>>

\* C16 witness: nw, which gives no starting size, after three attempts at size
\* 0, one that left no file and one that left a file below the minimum
C16_Witness ==
    \E c \in CallsMade :
      LET A == RunsOf(c, "base")
      IN  /\ benchmarks[c] = "nw" /\ Len(A) = 3
          /\ \A j \in 1..3 : A[j].size = 0 /\ KeepsSearching(A[j])
          /\ \E j \in 1..3 : A[j].found = 0
          /\ \E j \in 1..3 : A[j].found # 0
          /\ pc = "search" /\ cur_size = 0

NoArtifactRun(e) == e.ev = "run" /\ e.phase = "base" /\ e.rc = 0 /\ e.found = 0

\* C17: a base-size attempt that exited 0 and left no file is measured as the
\* int 0 and is never accepted, whatever the minimum (0 included): what
\* follows it is the next attempt of the same call at twice the size, the
\* search going on; and a base record is only written right after the move
\* that follows an attempt that found a file of at least the minimum size.
C17_NoArtifactNeverFound ==
    /\ \A i \in 1..Len(log) :
         NoArtifactRun(log[i]) =>
           /\ log[i].size_mb = IntZero
           /\ i < Len(log) =>
                /\ log[i + 1].ev = "run" /\ log[i + 1].phase = "base"
                /\ log[i + 1].call = log[i].call
                /\ log[i + 1].size = 2 * log[i].size
           /\ i = Len(log) =>
                /\ pc = "search" /\ bi = log[i].call
                /\ cur_size = 2 * log[i].size /\ base_size = NoSize
    /\ \A i \in 1..Len(log) :
         (log[i].ev = "record" /\ log[i].doc.comment = "base trace") =>
           /\ i > 2
           /\ log[i - 1].ev = "move"
           /\ log[i - 2].ev = "run" /\ log[i - 2].phase = "base"
           /\ log[i - 2].call = log[i].call
           /\ log[i - 2].rc = 0 /\ log[i - 2].found # 0
           /\ log[i - 2].found = log[i - 1].src
           /\ log[i - 2].size_mb.c >= min_size_MB * 100

\* C17 witness: with a minimum of 0, an attempt of fir at size 1 left no file
\* and the attempt at size 2 was accepted
C17_Witness ==
    \E c \in CallsMade :
      LET A == RunsOf(c, "base")
      IN  /\ min_size_MB = 0 /\ benchmarks[c] = "fir" /\ Len(A) = 2
          /\ NoArtifactRun(A[1]) /\ A[1].size = 1
          /\ A[2].size = 2 /\ A[2].found # 0
          /\ Len(RecordsOf(c)) > 0

\* the pass a record belongs to, by its identifier and comment
IsBaseRecord(e) == e.ev = "record" /\ e.doc.comment = "base trace"
IsNormalRecord(e) == e.ev = "record" /\ e.doc.comment = "" /\ e.doc.id[4] = "0"
IsSpecialRecord(e) == e.ev = "record" /\ e.doc.id[4] = "1"
IsNormal(e) == (e.ev = "run" /\ e.phase = "normal") \/ IsNormalRecord(e)
IsSpecial(e) == (e.ev = "run" /\ e.phase = "special") \/ IsSpecialRecord(e)

\* C19: within one call, the base record comes before every sweep run; every
\* normal run and normal record comes before every special run and special
\* record; the summary comes after all 1+K+S records and right before the
\* return of 0; and every sweep command carries the size flag with the size of
\* the accepted base-size attempt.
C19_PhaseOrder ==
    \A i \in 1..Len(log) :
      LET e == log[i]
          c == e.call
          before == {k \in 1..(i - 1) : log[k].call = c}
      IN  /\ (e.ev = "run" /\ e.phase # "base") =>
                /\ \E k \in before : IsBaseRecord(log[k])
                /\ \A k \in before : log[k].ev = "run" /\ log[k].phase = "base" =>
                     log[k].size <= e.size
                /\ \E k \in before :
                     /\ log[k].ev = "run" /\ log[k].phase = "base" /\ Meets(log[k])
                     /\ e.size = log[k].size
                     /\ e.cmd[4] = ConfOf(c).size_arg
                     /\ e.cmd[5] = Str(log[k].size)
          /\ IsNormal(e) => \A k \in before : ~IsSpecial(log[k])
          /\ e.ev = "summary" =>
                /\ Cardinality({k \in before : log[k].ev = "record"})
                     = 1 + PlannedNormal(ConfOf(c)) + PlannedSpecial(ConfOf(c))
                /\ \A k \in (i + 1)..Len(log) :
                     log[k].call = c => log[k].ev = "return" /\ k = i + 1
                /\ i < Len(log)
                /\ log[i + 1] = [ev |-> "return", call |-> c, status |-> 0]
          /\ (e.ev = "return" /\ e.status = 0) => i > 1 /\ log[i - 1].ev = "summary"

\* C19 witness: kmeans ran to the end, two normal runs and then two special
\* runs after a base size found at the second attempt
C19_Witness ==
    \E c \in CallsMade :
      /\ benchmarks[c] = "kmeans"
      /\ Len(RunsOf(c, "base")) = 2
      /\ Len(RunsOf(c, "normal")) = 2 /\ Len(RunsOf(c, "special")) = 2
      /\ ReturnsOf(c) = <<[ev |-> "return", call |-> c, status |-> 0]>>

\* the calls that returned 0 and whose summary was written
Summarised ==
    {c \in CallsMade :
       /\ ReturnsOf(c) = <<[ev |-> "return", call |-> c, status |-> 0]>>
       /\ \E i \in 1..Len(log) : log[i] = [ev |-> "summary", call |-> c, ok |-> TRUE]}

\* C21 as claimed: when a call has returned 0 and written its summary, every
\* trace file name the summary lists is the name of a file in the trace
\* directory.
C21_ListedTracesExist ==
    \A c \in Summarised :
      log[Len(log)].call = c =>
        LET summary == recordDir[SummaryName(benchmarks[c])]
        IN  \A j \in 1..Len(summary.data) : summary.data[j] \in DOMAIN dataDir

\* C22 as claimed: the file a run's scan finds (the one that is measured for
\* the run's record and stored under the run's file name) is the file that
\* run's own command has made, never a file that was in the working directory
\* before the run.
C22_FoundIsOwnArtifact ==
    \A i \in 1..Len(log) :
      (log[i].ev = "run" /\ log[i].found # 0) => log[i].found = log[i].made

\* the position in the log of the run a record (at position i) describes
RunBefore(i) == CHOOSE j \in 1..(i - 1) :
                  /\ log[j].ev = "run"
                  /\ \A k \in (j + 1)..(i - 1) : log[k].ev # "run"

\* C23 as claimed: the words of a record's benchmark_cmd after the program
\* name are the arguments of the command that was executed for the record's
\* run, in the same order.
C23_RecordedArgsAreExecutedArgs ==
    \A i \in 1..Len(log) :
      log[i].ev = "record" =>
        Tail(Split(log[i].doc.benchmark_cmd)) = Tail(log[RunBefore(i)].cmd)

\* the record id of position j (index j - 1) of a benchmark's summary lists
PositionId(conf, j) ==
    IdOf(conf, IF j - 1 <= PlannedNormal(conf) THEN "0" ELSE "1", j - 1)

\* C24 as claimed: the summary of a call that has returned 0 lists 1+K+S trace
\* files and 1+K+S record files, and at every position the two names are the
\* position's record id followed by .sqlite3 and by .json.
C24_PairedNames ==
    \A c \in Summarised :
      log[Len(log)].call = c =>
        LET summary == recordDir[SummaryName(benchmarks[c])]
            conf == ConfOf(c)
            n == 1 + PlannedNormal(conf) + PlannedSpecial(conf)
        IN  /\ Len(summary.data) = n
            /\ Len(summary.data_record) = n
            /\ \A j \in 1..n :
                 /\ summary.data[j] = PositionId(conf, j) \o <<".sqlite3">>
                 /\ summary.data_record[j] = PositionId(conf, j) \o <<".json">>

\* ------------------------------------------------ the search, run to its end
\* process_benchmark is sequential and subprocess.run returns when the child
\* has ended: while the loop of the search is running, its next iteration is
\* taken.  The benchmarks searched start at a size of at least 1.
SearchRequests ==
    {[entry |-> "call", names |-> <<"ghost">>]}
    \cup {[entry |-> "main", names |-> l] :
            l \in {<<>>, <<"fir">>, <<"kmeans">>, <<"ghost", "fir">>}}

InitSearch ==
    /\ \E req \in SearchRequests : entry = req.entry /\ benchmarks = req.names
    /\ min_size_MB \in MinSizes
    /\ naming = <<>> /\ drive = {} /\ job = <<>> /\ inst = <<>>
    /\ mainpc = IF entry = "main" THEN "validate" ELSE "loop"
    /\ bi = 1 /\ rc = 0 /\ exitCode = -1 /\ pc = "idle"
    /\ cur_size = 0 /\ idx_counter = 0 /\ base_size = NoSize
    /\ produced_traces = <<>> /\ produced_records = <<>>
    /\ combos = <<>> /\ specials = <<>> /\ attempt = 0
    /\ cwdFiles = {} /\ clock = 1
    /\ dataDir = <<>> /\ recordDir = <<>>
    /\ faults = 0 /\ log = <<>>

\* lines 180-253: one iteration of the while loop of the search
SearchStep == BaseFailed \/ BaseNoArtifact \/ BaseUndersized \/ BaseFound

SpecSearch == InitSearch /\ [][Next]_vars /\ WF_vars(SearchStep)

\* a base-size attempt that ends the search: it exited nonzero (ABORTED) or
\* found a file of at least the minimum size (FOUND)
EndsSearch(e) == e.rc # 0 \/ Meets(e)

\* the sizes tried and where the search stands, for starting sizes >= 1
SearchShape ==
    \A c \in CallsMade :
      (Configured(benchmarks[c]) /\ size_arg_start(ConfOf(c)) >= 1) =>
        LET A == RunsOf(c, "base")
            n == Len(A)
            searching == c = bi /\ pc = "search"
        IN  /\ \A j \in 1..n : A[j].size = size_arg_start(ConfOf(c)) * Pow2(j - 1)
            /\ \A j, k \in 1..n : j < k => A[j].size < A[k].size
            /\ \A j \in 1..(n - 1) : ~EndsSearch(A[j])
            /\ (n > 0 /\ EndsSearch(A[n])) => ~searching
            /\ (n > 0 /\ A[n].rc # 0) =>
                  ReturnsOf(c) = <<[ev |-> "return", call |-> c, status |-> 1]>>
            /\ (n > 0 /\ A[n].rc = 0 /\ Meets(A[n])) =>
                  /\ Len(RecordsOf(c)) > 0
                  /\ searching \/ c # bi \/ base_size = A[n].size
            /\ searching => cur_size = size_arg_start(ConfOf(c)) * Pow2(n)

\* the search of a benchmark with a starting size >= 1 is under way, within
\* the attempts explored
Searching ==
    pc = "search" /\ size_arg_start(bconf) >= 1 /\ attempt < MaxAttempts

\* the search has ended, or the attempts explored are used up without an
\* attempt that ends it
SearchOver == pc # "search" \/ attempt >= MaxAttempts

\* C25: for a starting size >= 1 the attempts are made at start, 2*start,
\* 4*start, ..., strictly increasing and so each size once; the first attempt
\* that exits nonzero or reaches the minimum is the last one, after it the
\* search is ABORTED (status 1) or FOUND (base record written, base size set)
\* and no further attempt is made; and a search under way always goes on to
\* its next attempt, so it ends once an attempt fails or reaches the minimum.
C25_DoublingSearchEnds == []SearchShape /\ (Searching ~> SearchOver)

\* C25 witness: the third attempt of kmeans, at size 8 after 2 and 4, reaches
\* the minimum and the search is over
C25_Witness ==
    \E c \in CallsMade :
      LET A == RunsOf(c, "base")
      IN  /\ benchmarks[c] = "kmeans" /\ Len(A) = 3
          /\ A[3].size = 8 /\ Meets(A[3]) /\ ~Meets(A[2]) /\ ~Meets(A[1])
          /\ pc # "search" /\ Len(RecordsOf(c)) > 0

\* the record directory that the writes of the log, from position i on, make
\* of dir: each record written, each summary written
RECURSIVE RecordsReplayed(_, _)
RecordsReplayed(dir, i) ==
    IF i > Len(log) THEN dir
    ELSE LET e == log[i]
         IN  RecordsReplayed(
               IF e.ev = "record" THEN Put(dir, e.file, e.doc)
               ELSE IF e.ev = "summary" /\ e.ok
               THEN Put(dir, SummaryName(benchmarks[e.call]), ListsOf(e.call))
               ELSE dir,
               i + 1)

\* the moves into the trace directory that worked
MovesDone == {i \in 1..Len(log) : log[i].ev = "move" /\ log[i].ok}

\* the trace directory holds the earlier traces and the files moved in; a
\* name holds the file last moved to it, or else what it held before
TracesReplayed ==
    /\ DOMAIN dataDir = DOMAIN PriorDataDir \cup {log[i].dst : i \in MovesDone}
    /\ \A n \in DOMAIN dataDir :
         LET to == {i \in MovesDone : log[i].dst = n}
         IN  IF to = {} THEN dataDir[n] = PriorDataDir[n]
             ELSE dataDir[n].id = log[CHOOSE i \in to : \A k \in to : k <= i].src

\* the calls that have returned 1
Failed == {c \in CallsMade :
             ReturnsOf(c) = <<[ev |-> "return", call |-> c, status |-> 1]>>}

\* C26: a call that returns 1 has written no record and no summary and moved
\* no trace, and the two output directories hold what they held before it:
\* their contents are those of the earlier invocation, changed only by the
\* records, summaries and moves of the calls that did not fail.
C26_FailureLeavesOutputs ==
    /\ \A i \in 1..Len(log) :
         log[i].call \in Failed => log[i].ev \notin {"record", "summary", "move"}
    /\ recordDir = RecordsReplayed(PriorRecordDir, 1)
    /\ TracesReplayed
    /\ CallsMade \subseteq Failed =>
         recordDir = PriorRecordDir /\ dataDir = PriorDataDir

\* C26 witness: the second call for bfs is aborted by a failed base attempt
\* after the first call has written its records, its traces and its summary,
\* which are still there
C26_Witness ==
    /\ benchmarks = <<"bfs", "bfs">>
    /\ 2 \in Failed /\ 1 \in Summarised
    /\ \E i \in 1..Len(log) : log[i].call = 2 /\ FailedBaseRun(log[i])
    /\ recordDir[SummaryName("bfs")] = ListsOf(1)
    /\ \E i \in MovesDone : log[i].call = 1 /\ dataDir[log[i].dst].id = log[i].src

\* the configuration has no flag, or a flag whose value list is missing or
\* empty
NoFlags(conf) == Len(conf.normal_arg_list) = 0
ValuelessFlag(conf) ==
    \E i \in 1..Len(conf.normal_arg_list) :
      LET key == LStripDash(conf.normal_arg_list[i])
      IN  key \notin DOMAIN conf.normal_arg_values
          \/ Len(conf.normal_arg_values[key]) = 0

\* C27: for a benchmark without a flag, or with a flag whose value list is
\* missing or empty, a call plans no combination, makes no normal run and
\* writes no normal record: every record after the base record is a special
\* record, and the first special run and its record have index 1.
C27_NoNormalPass ==
    \A c \in CallsMade :
      (Configured(benchmarks[c]) /\ (NoFlags(ConfOf(c)) \/ ValuelessFlag(ConfOf(c)))) =>
        LET R == RecordsOf(c)
            X == RunsOf(c, "special")
        IN  /\ RunsOf(c, "normal") = <<>>
            /\ (c = bi /\ pc # "idle") => (combos = <<>> /\ pc # "normal")
            /\ \A j \in 2..Len(R) : IsSpecialRecord(R[j])
            /\ Len(X) > 0 => X[1].index = 1
            /\ Len(R) > 1 => R[2].doc.id = IdOf(ConfOf(c), "1", 1)
                              /\ R[2].file = IdOf(ConfOf(c), "1", 1) \o <<".json">>

\* C27 witness: atax has a flag with values and a flag with an empty value
\* list; its special run has been made and recorded at index 1
C27_Witness ==
    \E c \in CallsMade :
      /\ benchmarks[c] = "atax"
      /\ ~NoFlags(ConfOf(c)) /\ ValuelessFlag(ConfOf(c))
      /\ Len(RunsOf(c, "special")) = 1
      /\ Len(RecordsOf(c)) = 2
      /\ RecordsOf(c)[2].doc.id = <<"D", "0", "7", "1", "0", "0", "0", "1">>

====
